---- MODULE Spec2Model ----
(***************************************************************************)
(* Goal / subtask store of the productivity dashboard backend.             *)
(*                                                                         *)
(* GoalService (src/backend/src/routes/auth.js, from line 115) keeps goals *)
(* and subtasks either in two process-local Maps (when DATABASE_URL is not *)
(* configured) or in the durable backend behind Prisma.  GoalController    *)
(* (src/backend/src/middleware/requestLogger.js, from line 270) turns each *)
(* service call into an HTTP response.                                     *)
(*                                                                         *)
(* Identifiers `goal-n` / `subtask-n` are modelled by the number n; 0 is   *)
(* "no identifier".                                                        *)
(***************************************************************************)
EXTENDS Naturals, Integers, Sequences, FiniteSets, TLC

VARIABLES
    inMemoryGoals,      \* this.inMemoryGoals    : goal id |-> [ownerId, status, title,
                        \*                         description, priority, dueDate]
    inMemorySubtasks,   \* this.inMemorySubtasks : subtask id |-> [goalId, completed, title]
    goalIdCounter,      \* this.goalIdCounter
    subtaskIdCounter,   \* this.subtaskIdCounter
    dbGoals,            \* durable backend, table of goals    : id |-> [ownerId, status]
    dbSubtasks,         \* durable backend, table of subtasks : id |-> [goalId, completed]
    dbIdSeq,            \* durable backend, identifiers generated so far
    pc,                 \* per request in flight: the backend call its handler awaits next
    cmd,                \* per request in flight: the command and its arguments
    loc,                \* per request in flight: the handler's local constants
    resp,               \* per request: the response sent
    snap,               \* the backend's tables when the requests in flight were issued
    llmInput,           \* the body of the request for suggested subtasks
    llmResult,          \* what LLMService.generateSubtasks returned for it
    isGeminiAvailable,  \* this.isGeminiAvailable
    llmPc,              \* where generateSubtasks stands: idle, generateContent, done
    llmOutcome,         \* what geminiModel.generateContent did
    llmResponse,        \* the response of LLMController.generateSubtasks
    inMemoryUsers,      \* AuthService this.inMemoryUsers : user id |-> [email, passwordHash]
    userIdCounter,      \* AuthService this.userIdCounter
    authPc,             \* per auth request: the await its handler stands at
    authCmd,            \* per auth request: the route and what the client sent
    authLoc,            \* per auth request: the user object loginInMemory found
    authResp            \* per auth request: the response sent

memVars == <<inMemoryGoals, inMemorySubtasks, goalIdCounter, subtaskIdCounter>>
dbVars == <<dbGoals, dbSubtasks, dbIdSeq, pc, cmd, loc, resp, snap>>
geminiVars == <<isGeminiAvailable, llmPc, llmOutcome, llmResponse>>
llmVars == <<llmInput, llmResult, geminiVars>>
authVars == <<inMemoryUsers, userIdCounter, authPc, authCmd, authLoc, authResp>>
vars == <<memVars, dbVars, llmVars, authVars>>

(***************************************************************************)
(* Bounds of the model.                                                    *)
(***************************************************************************)
\* goals plus subtasks the model creates on top of the seeded ones
MaxNewEntities == 1
\* goals plus subtasks created on top of the seeded ones where the commands
\* carry titles, priorities and due dates
MaxFieldEntities == 3
\* goals the model creates in the durable backend
MaxDbGoals == 1
\* subtasks a goal is created with in the durable backend
MaxDbSubtasks == 2

\* requests handled concurrently
Procs == {"p1", "p2"}

Users == {"user-1", "user-2"}
Statuses == {"ACTIVE", "COMPLETED", "PAUSED", "CANCELLED"}
Priorities == {"HIGH", "MEDIUM", "LOW"}

\* an optional request field that was not supplied
Undefined == "undefined"
\* request values of the optional boolean `completed`
CompletedInputs == {Undefined, "true", "false"}

\* a request body of createGoal / updateGoal that supplies no field
\* (subtasks: the supplied subtasks as [title, completed]; none supplied and
\* an empty array are the same to goalSchema, which defaults to [])
NoGoalData == [title |-> Undefined, description |-> Undefined, priority |-> Undefined,
               status |-> Undefined, dueDate |-> Undefined, subtasks |-> <<>>]

\* a request body of updateGoal that supplies the status only
OnlyStatus(status) == [NoGoalData EXCEPT !.status = status]

\* a request body of updateSubtask that supplies `completed` only
OnlyCompleted(completed) == [title |-> Undefined, completed |-> completed]

(***************************************************************************)
(* The store as one value, and the result of a service call: the store it  *)
(* leaves behind, whether it threw, the Error message, and the identifiers *)
(* of the entity it returned.                                              *)
(***************************************************************************)
MkStore(goals, subtasks, gc, sc) ==
    [goals |-> goals, subtasks |-> subtasks, goalIdCounter |-> gc, subtaskIdCounter |-> sc]

Store == MkStore(inMemoryGoals, inMemorySubtasks, goalIdCounter, subtaskIdCounter)

Throw(st, msg) ==
    [st |-> st, threw |-> TRUE, error |-> msg, goalId |-> 0, subtaskId |-> 0]

Return(st, gid, sid) ==
    [st |-> st, threw |-> FALSE, error |-> "", goalId |-> gid, subtaskId |-> sid]

\* a request slot without a command, handler constants not yet read, no
\* response sent
NoCmd == [op |-> "none", userId |-> "", goalId |-> 0, subtaskId |-> 0,
          completed |-> Undefined, status |-> Undefined, subtasks |-> <<>>]
NoLoc == [goalId |-> 0, completed |-> FALSE, status |-> ""]
NoResp == [code |-> 0, error |-> ""]

\* Array.from(this.inMemorySubtasks.values()).filter(s => s.goalId === goalId)
SubtasksOf(st, goalId) ==
    {s \in DOMAIN st.subtasks : st.subtasks[s].goalId = goalId}

\* subtasks.every(subtask => subtask.completed)
AllCompleted(st, goalId) ==
    \A s \in SubtasksOf(st, goalId) : st.subtasks[s].completed

\* map with key k set to v (Map.prototype.set)
MapSet(m, k, v) == [x \in DOMAIN m \cup {k} |-> IF x = k THEN v ELSE m[x]]

\* map without the keys in ks (Map.prototype.delete)
MapDelete(m, ks) == [x \in DOMAIN m \ ks |-> m[x]]

(***************************************************************************)
(* GoalService, in-memory implementation.                                  *)
(***************************************************************************)

\* statusSchema.default('ACTIVE'): the status goalSchema.parse hands on
GoalSchemaStatus(status) == IF status = Undefined THEN "ACTIVE" ELSE status

\* prioritySchema.default('MEDIUM')
GoalSchemaPriority(priority) == IF priority = Undefined THEN "MEDIUM" ELSE priority

\* the message of zod's invalid_enum_value issue
InvalidEnum(expected, received) ==
    "Invalid enum value. Expected " \o expected \o ", received '" \o received \o "'"

\* new Date(val) on the strings a request carries: a date (YYYY-MM-DD) is
\* read as midnight UTC, a full ISO timestamp as itself, and anything else
\* gives an Invalid Date
IsDateOnly(val) ==
    Len(val) = 10 /\ SubSeq(val, 5, 5) = "-" /\ SubSeq(val, 8, 8) = "-"

IsIsoTimestamp(val) ==
    /\ Len(val) = 24
    /\ IsDateOnly(SubSeq(val, 1, 10))
    /\ SubSeq(val, 11, 11) = "T"
    /\ SubSeq(val, 24, 24) = "Z"

\* !isNaN(new Date(val).getTime())
DateParses(val) == IsDateOnly(val) \/ IsIsoTimestamp(val)

\* new Date(val).toISOString()
ToISOString(val) == IF IsDateOnly(val) THEN val \o "T00:00:00.000Z" ELSE val

\* the transform of goalSchema.dueDate, where it does not throw
GoalSchemaDueDate(val) ==
    IF val = Undefined \/ val = "" THEN Undefined ELSE ToISOString(val)

\* the messages of the issues zod finds in the supplied subtasks, in order
SubtaskIssues(subtasks) ==
    [i \in DOMAIN subtasks |->
        IF subtasks[i].title = Undefined THEN "Required"
        ELSE IF Len(subtasks[i].title) < 1 THEN "Subtask title is required"
        ELSE ""]

\* the issues of the schema if the priority were not checked against its enum
GoalSchemaIssuesAnyPriority(goalData, partial) ==
    << IF goalData.title = Undefined
           THEN (IF partial THEN "" ELSE "Required")
           ELSE IF Len(goalData.title) < 1 THEN "Goal title is required" ELSE "",
       "",
       IF goalData.status \in Statuses \cup {Undefined} THEN ""
           ELSE InvalidEnum("'ACTIVE' | 'COMPLETED' | 'PAUSED' | 'CANCELLED'",
                            goalData.status) >>
    \o SubtaskIssues(goalData.subtasks)

\* the messages of the issues zod finds, in the order of the schema's keys
\* ("" where a key has none); partial is TRUE for updateGoalSchema
GoalSchemaIssues(goalData, partial) ==
    << IF goalData.title = Undefined
           THEN (IF partial THEN "" ELSE "Required")
           ELSE IF Len(goalData.title) < 1 THEN "Goal title is required" ELSE "",
       IF goalData.priority \in Priorities \cup {Undefined} THEN ""
           ELSE InvalidEnum("'HIGH' | 'MEDIUM' | 'LOW'", goalData.priority),
       IF goalData.status \in Statuses \cup {Undefined} THEN ""
           ELSE InvalidEnum("'ACTIVE' | 'COMPLETED' | 'PAUSED' | 'CANCELLED'",
                            goalData.status) >>
    \o SubtaskIssues(goalData.subtasks)

\* goalSchema.parse (partial = FALSE) and updateGoalSchema.parse (partial =
\* TRUE) as createGoal / updateGoal use them: the Error thrown by the dueDate
\* transform leaves parse as it is, a ZodError is rethrown with the message of
\* its first issue; validatedData otherwise.  A key of updateGoalSchema that
\* is not supplied stays undefined (no default is applied).
GoalSchemaParse(goalData, partial) ==
    LET issues == SelectSeq(GoalSchemaIssues(goalData, partial), LAMBDA m : m # "")
        badDate == /\ goalData.dueDate \notin {Undefined, ""}
                   /\ ~DateParses(goalData.dueDate)
    IN  IF badDate THEN [ok |-> FALSE, error |-> "Invalid date format", data |-> NoGoalData]
        ELSE IF issues # <<>> THEN [ok |-> FALSE, error |-> issues[1], data |-> NoGoalData]
        ELSE [ok |-> TRUE, error |-> "",
              data |-> [title |-> goalData.title,
                        description |-> goalData.description,
                        priority |-> IF partial THEN goalData.priority
                                     ELSE GoalSchemaPriority(goalData.priority),
                        status |-> IF partial THEN goalData.status
                                   ELSE GoalSchemaStatus(goalData.status),
                        dueDate |-> GoalSchemaDueDate(goalData.dueDate),
                        subtasks |-> [i \in DOMAIN goalData.subtasks |->
                                        [title |-> goalData.subtasks[i].title,
                                         completed |->
                                            goalData.subtasks[i].completed = "true"]]]]

\* createGoalInMemory taking the goal's identifier from the size of the Map
CreateGoalInMemoryIdFromSize(st, userId, validatedData) ==
    LET goalId == Cardinality(DOMAIN st.goals) + 1
        n == Len(validatedData.subtasks)
        newIds == st.subtaskIdCounter .. (st.subtaskIdCounter + n - 1)
        goal == [ownerId |-> userId, status |-> validatedData.status,
                 title |-> validatedData.title,
                 description |-> validatedData.description,
                 priority |-> validatedData.priority,
                 dueDate |-> validatedData.dueDate]
        subtasks ==
            [s \in DOMAIN st.subtasks \cup newIds |->
                IF s \in newIds
                    THEN LET subtaskData ==
                                validatedData.subtasks[s - st.subtaskIdCounter + 1]
                         IN  [goalId |-> goalId, completed |-> subtaskData.completed,
                              title |-> subtaskData.title]
                    ELSE st.subtasks[s]]
    IN  Return(MkStore(MapSet(st.goals, goalId, goal), subtasks,
                       st.goalIdCounter + 1, st.subtaskIdCounter + n),
               goalId, 0)

\* createGoalInMemory storing every supplied subtask as incomplete
CreateGoalInMemoryAllIncomplete(st, userId, validatedData) ==
    LET goalId == st.goalIdCounter
        n == Len(validatedData.subtasks)
        newIds == st.subtaskIdCounter .. (st.subtaskIdCounter + n - 1)
        goal == [ownerId |-> userId, status |-> validatedData.status,
                 title |-> validatedData.title,
                 description |-> validatedData.description,
                 priority |-> validatedData.priority,
                 dueDate |-> validatedData.dueDate]
        subtasks ==
            [s \in DOMAIN st.subtasks \cup newIds |->
                IF s \in newIds
                    THEN LET subtaskData ==
                                validatedData.subtasks[s - st.subtaskIdCounter + 1]
                         IN  [goalId |-> goalId, completed |-> FALSE,
                              title |-> subtaskData.title]
                    ELSE st.subtasks[s]]
    IN  Return(MkStore(MapSet(st.goals, goalId, goal), subtasks,
                       st.goalIdCounter + 1, st.subtaskIdCounter + n),
               goalId, 0)

\* createGoalInMemory: validatedData is the data of GoalSchemaParse
CreateGoalInMemory(st, userId, validatedData) ==
    LET goalId == st.goalIdCounter
        n == Len(validatedData.subtasks)
        newIds == st.subtaskIdCounter .. (st.subtaskIdCounter + n - 1)
        goal == [ownerId |-> userId, status |-> validatedData.status,
                 title |-> validatedData.title,
                 description |-> validatedData.description,
                 priority |-> validatedData.priority,
                 dueDate |-> validatedData.dueDate]
        subtasks ==
            [s \in DOMAIN st.subtasks \cup newIds |->
                IF s \in newIds
                    THEN LET subtaskData ==
                                validatedData.subtasks[s - st.subtaskIdCounter + 1]
                         IN  [goalId |-> goalId, completed |-> subtaskData.completed,
                              title |-> subtaskData.title]
                    ELSE st.subtasks[s]]
    IN  Return(MkStore(MapSet(st.goals, goalId, goal), subtasks,
                       st.goalIdCounter + 1, st.subtaskIdCounter + n),
               goalId, 0)

\* the value of one key after Object.keys(validatedData).forEach(...): the
\* supplied value unless it is undefined
Assigned(old, new) == IF new # Undefined THEN new ELSE old

\* updateGoalInMemory assigning every key of the schema, supplied or not
UpdateGoalInMemoryAssignAll(st, userId, goalId, validatedData) ==
    IF goalId \notin DOMAIN st.goals \/ st.goals[goalId].ownerId # userId
        THEN Throw(st, "Goal not found or access denied")
        ELSE LET old == st.goals[goalId]
                 goal == [ownerId |-> old.ownerId,
                          status |-> validatedData.status,
                          title |-> validatedData.title,
                          description |-> validatedData.description,
                          priority |-> validatedData.priority,
                          dueDate |-> validatedData.dueDate]
             IN  Return([st EXCEPT !.goals = MapSet(st.goals, goalId, goal)], goalId, 0)

\* updateGoalInMemory: validatedData is the data of GoalSchemaParse; its
\* `subtasks` key lands on the goal object, which every response overrides
\* with the subtasks of the Map, and is left out
UpdateGoalInMemory(st, userId, goalId, validatedData) ==
    IF goalId \notin DOMAIN st.goals \/ st.goals[goalId].ownerId # userId
        THEN Throw(st, "Goal not found or access denied")
        ELSE LET old == st.goals[goalId]
                 goal == [ownerId |-> old.ownerId,
                          status |-> Assigned(old.status, validatedData.status),
                          title |-> Assigned(old.title, validatedData.title),
                          description |->
                              Assigned(old.description, validatedData.description),
                          priority |-> Assigned(old.priority, validatedData.priority),
                          dueDate |-> Assigned(old.dueDate, validatedData.dueDate)]
             IN  Return([st EXCEPT !.goals = MapSet(st.goals, goalId, goal)], goalId, 0)

\* toggleSubtaskInMemory without the check of the goal's owner
ToggleSubtaskInMemoryAnyOwner(st, userId, subtaskId) ==
    IF subtaskId \notin DOMAIN st.subtasks
        THEN Throw(st, "Subtask not found")
        ELSE Return([st EXCEPT !.subtasks[subtaskId].completed = ~@],
                    st.subtasks[subtaskId].goalId, subtaskId)

\* toggleSubtaskInMemory
ToggleSubtaskInMemory(st, userId, subtaskId) ==
    IF subtaskId \notin DOMAIN st.subtasks
        THEN Throw(st, "Subtask not found")
        ELSE LET goalId == st.subtasks[subtaskId].goalId IN
             IF goalId \notin DOMAIN st.goals \/ st.goals[goalId].ownerId # userId
                 THEN Throw(st, "Access denied")
                 ELSE Return([st EXCEPT !.subtasks[subtaskId].completed = ~@],
                             goalId, subtaskId)

\* addSubtaskInMemory: subtaskData = [title]
AddSubtaskInMemory(st, userId, goalId, subtaskData) ==
    IF goalId \notin DOMAIN st.goals \/ st.goals[goalId].ownerId # userId
        THEN Throw(st, "Goal not found or access denied")
        ELSE LET subtaskId == st.subtaskIdCounter IN
             Return([st EXCEPT
                        !.subtasks = MapSet(st.subtasks, subtaskId,
                                            [goalId |-> goalId, completed |-> FALSE,
                                             title |-> subtaskData.title]),
                        !.subtaskIdCounter = @ + 1],
                    goalId, subtaskId)

\* updateSubtaskInMemory: subtaskData = [title, completed], completed being
\* one of CompletedInputs
UpdateSubtaskInMemory(st, userId, goalId, subtaskId, subtaskData) ==
    IF subtaskId \notin DOMAIN st.subtasks \/ st.subtasks[subtaskId].goalId # goalId
        THEN Throw(st, "Subtask not found")
        ELSE IF goalId \notin DOMAIN st.goals \/ st.goals[goalId].ownerId # userId
                 THEN Throw(st, "Access denied")
                 ELSE LET old == st.subtasks[subtaskId]
                          subtask ==
                            [goalId |-> old.goalId,
                             completed |-> IF subtaskData.completed # Undefined
                                               THEN subtaskData.completed = "true"
                                               ELSE old.completed,
                             title |-> Assigned(old.title, subtaskData.title)]
                      IN  Return([st EXCEPT !.subtasks[subtaskId] = subtask],
                                 goalId, subtaskId)

\* checkAndUpdateGoalCompletionInMemory without the branch that reactivates
\* a COMPLETED goal
CheckAndUpdateGoalCompletionInMemoryNoReactivate(st, userId, goalId) ==
    IF goalId \notin DOMAIN st.goals \/ st.goals[goalId].ownerId # userId
        THEN Throw(st, "Goal not found or access denied")
        ELSE IF /\ SubtasksOf(st, goalId) # {}
                /\ AllCompleted(st, goalId)
                /\ st.goals[goalId].status # "COMPLETED"
                 THEN Return([st EXCEPT !.goals[goalId].status = "COMPLETED"], goalId, 0)
                 ELSE Return(st, goalId, 0)

\* checkAndUpdateGoalCompletionInMemory
CheckAndUpdateGoalCompletionInMemory(st, userId, goalId) ==
    IF goalId \notin DOMAIN st.goals \/ st.goals[goalId].ownerId # userId
        THEN Throw(st, "Goal not found or access denied")
        ELSE IF SubtasksOf(st, goalId) # {}
                 THEN IF AllCompleted(st, goalId) /\ st.goals[goalId].status # "COMPLETED"
                          THEN Return([st EXCEPT !.goals[goalId].status = "COMPLETED"],
                                      goalId, 0)
                          ELSE IF ~AllCompleted(st, goalId)
                                  /\ st.goals[goalId].status = "COMPLETED"
                                   THEN Return([st EXCEPT !.goals[goalId].status = "ACTIVE"],
                                               goalId, 0)
                                   ELSE Return(st, goalId, 0)
                 ELSE Return(st, goalId, 0)

\* deleteGoalInMemory without the deletion of the goal's subtasks
DeleteGoalInMemoryKeepSubtasks(st, userId, goalId) ==
    IF goalId \notin DOMAIN st.goals \/ st.goals[goalId].ownerId # userId
        THEN Throw(st, "Goal not found or access denied")
        ELSE Return([st EXCEPT !.goals = MapDelete(st.goals, {goalId})], goalId, 0)

\* deleteGoalInMemory
DeleteGoalInMemory(st, userId, goalId) ==
    IF goalId \notin DOMAIN st.goals \/ st.goals[goalId].ownerId # userId
        THEN Throw(st, "Goal not found or access denied")
        ELSE Return([st EXCEPT !.goals = MapDelete(st.goals, {goalId}),
                               !.subtasks = MapDelete(st.subtasks, SubtasksOf(st, goalId))],
                    goalId, 0)

\* getUserGoalsInMemory: the ids of the goals returned; statusFilter is
\* filters.status, Undefined when the query has none
GetUserGoalsInMemory(st, userId, statusFilter) ==
    {g \in DOMAIN st.goals :
        /\ st.goals[g].ownerId = userId
        /\ (statusFilter # Undefined => st.goals[g].status = statusFilter)}

(***************************************************************************)
(* GoalController: each handler awaits the service call(s) inside one      *)
(* try block and answers 400 with error.message when any of them throws.   *)
(* With the in-memory store no call suspends on I/O, so a handler runs to  *)
(* its response without another handler in between.                        *)
(***************************************************************************)

\* the goals of a response payload, as the caller sees them
GoalsPayload(st, ids) == {[id |-> g, ownerId |-> st.goals[g].ownerId] : g \in ids}

\* res.status(code).json({ success: true, data })
Success(st, code, subtaskId, goals) ==
    [st |-> st, code |-> code, error |-> "", subtaskId |-> subtaskId, goals |-> goals]

\* res.status(code).json({ success: false, error })
Failure(st, code, error) ==
    [st |-> st, code |-> code, error |-> error, subtaskId |-> 0, goals |-> {}]

\* GoalController.getGoals
HandleGetGoals(st, userId, statusFilter) ==
    Success(st, 200, 0, GoalsPayload(st, GetUserGoalsInMemory(st, userId, statusFilter)))

\* GoalController.getGoal
HandleGetGoal(st, userId, id) ==
    IF id \in GetUserGoalsInMemory(st, userId, Undefined)
        THEN Success(st, 200, 0, GoalsPayload(st, {id}))
        ELSE Failure(st, 404, "Goal not found")

\* GoalController.createGoal over GoalService.createGoal: goalSchema.parse,
\* then createGoalInMemory
HandleCreateGoal(st, userId, body) ==
    LET parsed == GoalSchemaParse(body, FALSE) IN
    IF ~parsed.ok THEN Failure(st, 400, parsed.error)
    ELSE LET r == CreateGoalInMemory(st, userId, parsed.data)
         IN  IF r.threw THEN Failure(r.st, 400, r.error)
                        ELSE Success(r.st, 201, 0, GoalsPayload(r.st, {r.goalId}))

\* GoalController.updateGoal over GoalService.updateGoal:
\* updateGoalSchema.parse, then updateGoalInMemory
HandleUpdateGoal(st, userId, id, body) ==
    LET parsed == GoalSchemaParse(body, TRUE) IN
    IF ~parsed.ok THEN Failure(st, 400, parsed.error)
    ELSE LET r == UpdateGoalInMemory(st, userId, id, parsed.data)
         IN  IF r.threw THEN Failure(r.st, 400, r.error)
                        ELSE Success(r.st, 200, 0, GoalsPayload(r.st, {r.goalId}))

\* GoalController.deleteGoal over GoalService.deleteGoal
HandleDeleteGoal(st, userId, id) ==
    LET r == DeleteGoalInMemory(st, userId, id)
    IN  IF r.threw THEN Failure(r.st, 400, r.error)
                   ELSE Success(r.st, 200, 0, {})

\* GoalController.toggleSubtask: toggle, then recompute the goal's status
HandleToggleSubtask(st, userId, subtaskId) ==
    LET t == ToggleSubtaskInMemory(st, userId, subtaskId) IN
    IF t.threw THEN Failure(t.st, 400, t.error)
    ELSE LET c == CheckAndUpdateGoalCompletionInMemory(t.st, userId, t.goalId) IN
         IF c.threw THEN Failure(c.st, 400, c.error)
                    ELSE Success(c.st, 200, t.subtaskId, {})

\* GoalController.addSubtask: `if (!title)` answers 400 before the service
\* is called
HandleAddSubtask(st, userId, goalId, title) ==
    IF title = Undefined \/ title = "" THEN Failure(st, 400, "Subtask title is required")
    ELSE LET r == AddSubtaskInMemory(st, userId, goalId, [title |-> title])
         IN  IF r.threw THEN Failure(r.st, 400, r.error)
                        ELSE Success(r.st, 201, r.subtaskId, {})

\* GoalController.updateSubtask: body = [title, completed]; update, then
\* recompute when `completed` was supplied
HandleUpdateSubtask(st, userId, goalId, subtaskId, body) ==
    LET u == UpdateSubtaskInMemory(st, userId, goalId, subtaskId, body) IN
    IF u.threw THEN Failure(u.st, 400, u.error)
    ELSE IF body.completed # Undefined
         THEN LET c == CheckAndUpdateGoalCompletionInMemory(u.st, userId, goalId) IN
              IF c.threw THEN Failure(c.st, 400, c.error)
                         ELSE Success(c.st, 200, u.subtaskId, {})
         ELSE Success(u.st, 200, u.subtaskId, {})

(***************************************************************************)
(* State machine of the in-memory store: one action per command, taken by  *)
(* any authenticated user with any identifier issued so far or the next,   *)
(* never issued one.                                                       *)
(***************************************************************************)

\* the constructor with the database not configured: seedDemoData
SeedStore ==
    MkStore((1 :> [ownerId |-> "user-1", status |-> "ACTIVE",
                   title |-> "Launch Product MVP",
                   description |-> "Complete and launch the minimum viable product",
                   priority |-> "HIGH", dueDate |-> "2025-10-30T00:00:00.000Z"])
                @@ (2 :> [ownerId |-> "user-1", status |-> "ACTIVE",
                          title |-> "Marketing Push",
                          description |-> "Execute comprehensive marketing strategy",
                          priority |-> "MEDIUM", dueDate |-> "2025-11-15T00:00:00.000Z"]),
            (1 :> [goalId |-> 1, completed |-> TRUE, title |-> "Finalize landing page"])
                @@ (2 :> [goalId |-> 1, completed |-> FALSE,
                          title |-> "QA test checkout flow"])
                @@ (3 :> [goalId |-> 1, completed |-> FALSE, title |-> "Record demo video"])
                @@ (4 :> [goalId |-> 2, completed |-> FALSE, title |-> "Draft announcement"])
                @@ (5 :> [goalId |-> 2, completed |-> FALSE, title |-> "Plan social posts"]),
            3, 6)

\* goals and subtasks created since the seed
NewEntities(st) ==
    (st.goalIdCounter - SeedStore.goalIdCounter)
        + (st.subtaskIdCounter - SeedStore.subtaskIdCounter)

\* tokens of a response that carries none
NoTokens == [accessToken |-> "", refreshToken |-> ""]

\* an auth request slot without a request, and without a response
NoAuthCmd == [op |-> "none", email |-> "", password |-> "", header |-> ""]
NoAuthLoc == [id |-> "", passwordHash |-> ""]
NoAuthResp == [code |-> 0, error |-> "", userId |-> "", tokens |-> NoTokens]

\* AuthService after its constructor, no auth request in flight
AuthIdle ==
    /\ inMemoryUsers = <<>>
    /\ userIdCounter = 1
    /\ authPc = [p \in Procs |-> "idle"]
    /\ authCmd = [p \in Procs |-> NoAuthCmd]
    /\ authLoc = [p \in Procs |-> NoAuthLoc]
    /\ authResp = [p \in Procs |-> NoAuthResp]

\* no request for suggestions, and no suggestions
NoLlmInput == [goalDescription |-> "", context |-> [priority |-> "MEDIUM"]]

NoLlmResult ==
    [success |-> FALSE, subtasks |-> <<>>, estimatedTotalHours |-> 0,
     criticalPath |-> <<>>, generatedBy |-> ""]

\* the provider has not been called
NoOutcome == [kind |-> "none", subtasks |-> <<>>]

\* no Gemini key configured, no request being served
GeminiIdle ==
    /\ isGeminiAvailable = FALSE
    /\ llmPc = "idle"
    /\ llmOutcome = NoOutcome
    /\ llmResponse = NoResp

LlmIdle ==
    /\ llmInput = NoLlmInput
    /\ llmResult = NoLlmResult
    /\ GeminiIdle

\* no request in flight, nothing in the durable backend
DbIdle ==
    /\ dbGoals = <<>>
    /\ dbSubtasks = <<>>
    /\ dbIdSeq = [goal |-> 0, subtask |-> 0]
    /\ pc = [p \in Procs |-> "idle"]
    /\ cmd = [p \in Procs |-> NoCmd]
    /\ loc = [p \in Procs |-> NoLoc]
    /\ resp = [p \in Procs |-> NoResp]
    /\ snap = [goals |-> <<>>, subtasks |-> <<>>]

Init ==
    /\ inMemoryGoals = SeedStore.goals
    /\ inMemorySubtasks = SeedStore.subtasks
    /\ goalIdCounter = SeedStore.goalIdCounter
    /\ subtaskIdCounter = SeedStore.subtaskIdCounter
    /\ DbIdle
    /\ AuthIdle
    /\ LlmIdle

\* the handler's store becomes the state, as long as no more than max goals
\* and subtasks have been created
HandledWithin(h, max) ==
    /\ NewEntities(h.st) <= max
    /\ inMemoryGoals' = h.st.goals
    /\ inMemorySubtasks' = h.st.subtasks
    /\ goalIdCounter' = h.st.goalIdCounter
    /\ subtaskIdCounter' = h.st.subtaskIdCounter
    /\ UNCHANGED <<dbVars, llmVars, authVars>>

Handled(h) == HandledWithin(h, MaxNewEntities)

\* identifiers a request may name
GoalIds == 1..goalIdCounter
SubtaskIds == 1..subtaskIdCounter
StatusInputs == Statuses \cup {Undefined}

\* the request bodies of createGoal: a title, any status or none, and up to
\* MaxNewEntities subtasks with a title and `completed` true or false
CreateGoalBodies ==
    {[NoGoalData EXCEPT !.title = "Plan", !.status = status, !.subtasks = subtasks] :
        status \in StatusInputs,
        subtasks \in UNION {[1..n -> [title : {"Step"}, completed : {"true", "false"}]] :
                                n \in 0..MaxNewEntities}}

GetGoals(userId, statusFilter) ==
    Handled(HandleGetGoals(Store, userId, statusFilter))

GetGoal(userId, id) ==
    Handled(HandleGetGoal(Store, userId, id))

CreateGoal(userId, body) ==
    Handled(HandleCreateGoal(Store, userId, body))

UpdateGoal(userId, id, body) ==
    Handled(HandleUpdateGoal(Store, userId, id, body))

DeleteGoal(userId, id) ==
    Handled(HandleDeleteGoal(Store, userId, id))

ToggleSubtask(userId, subtaskId) ==
    Handled(HandleToggleSubtask(Store, userId, subtaskId))

AddSubtask(userId, goalId, title) ==
    Handled(HandleAddSubtask(Store, userId, goalId, title))

UpdateSubtask(userId, goalId, subtaskId, body) ==
    Handled(HandleUpdateSubtask(Store, userId, goalId, subtaskId, body))

\* any command of one user
CommandBy(userId) ==
    \/ \E statusFilter \in StatusInputs : GetGoals(userId, statusFilter)
    \/ \E id \in GoalIds : GetGoal(userId, id)
    \/ \E body \in CreateGoalBodies : CreateGoal(userId, body)
    \/ \E id \in GoalIds, status \in StatusInputs :
            UpdateGoal(userId, id, OnlyStatus(status))
    \/ \E id \in GoalIds : DeleteGoal(userId, id)
    \/ \E subtaskId \in SubtaskIds : ToggleSubtask(userId, subtaskId)
    \/ \E goalId \in GoalIds : AddSubtask(userId, goalId, "Step")
    \/ \E goalId \in GoalIds, subtaskId \in SubtaskIds, completed \in CompletedInputs :
            UpdateSubtask(userId, goalId, subtaskId, OnlyCompleted(completed))

Next == \E userId \in Users : CommandBy(userId)

Spec == Init /\ [][Next]_vars

(***************************************************************************)
(* The in-memory store under the commands that create and delete goals and *)
(* subtasks and update goals, carrying titles, priorities and due dates,   *)
(* valid and invalid ones, issued by the owner of the seeded goals or by   *)
(* another user.                                                           *)
(***************************************************************************)

\* titles a request may carry
TitleInputs == {Undefined, "", " ", "Plan"}

\* the subtasks a createGoal request may carry: up to two with a title,
\* marked completed or not marked
SubtaskInputs ==
    UNION {[1..n -> [title : {"Step"}, completed : {Undefined, "true"}]] : n \in 0..2}

\* request bodies goalSchema accepts
ValidGoalData ==
    {[NoGoalData EXCEPT !.title = "Plan", !.dueDate = dueDate, !.subtasks = subtasks] :
        dueDate \in {Undefined, "2025-12-01"}, subtasks \in SubtaskInputs}

\* body with one of its fields made unacceptable: the title missing or
\* empty, a priority outside the enum, a due date that does not parse, or a
\* subtask with an empty title
Invalidated(body) ==
    {[body EXCEPT !.title = Undefined],
     [body EXCEPT !.title = ""],
     [body EXCEPT !.priority = "URGENT"],
     [body EXCEPT !.dueDate = "soon"],
     [body EXCEPT !.subtasks = Append(@, [title |-> "", completed |-> Undefined])]}

\* the request bodies of createGoal: the acceptable ones, and the
\* unacceptable variants of one of them
FieldsCreateBodies ==
    ValidGoalData
        \cup Invalidated([NoGoalData EXCEPT !.title = "Plan", !.dueDate = "2025-12-01"])

\* the request bodies of updateGoal: the priority LOW alone, and the
\* variants of the empty update (the one without a title is acceptable to
\* updateGoalSchema and changes nothing)
FieldsUpdateBodies ==
    {[NoGoalData EXCEPT !.priority = "LOW"]} \cup Invalidated(NoGoalData)

FieldsCreateGoal(userId, body) ==
    HandledWithin(HandleCreateGoal(Store, userId, body), MaxFieldEntities)

FieldsUpdateGoal(userId, id, body) ==
    HandledWithin(HandleUpdateGoal(Store, userId, id, body), MaxFieldEntities)

FieldsDeleteGoal(userId, id) ==
    HandledWithin(HandleDeleteGoal(Store, userId, id), MaxFieldEntities)

FieldsAddSubtask(userId, goalId, title) ==
    HandledWithin(HandleAddSubtask(Store, userId, goalId, title), MaxFieldEntities)

NextFields ==
    \E userId \in Users :
        \/ \E body \in FieldsCreateBodies : FieldsCreateGoal(userId, body)
        \/ \E id \in GoalIds, body \in FieldsUpdateBodies :
                FieldsUpdateGoal(userId, id, body)
        \/ \E id \in GoalIds : FieldsDeleteGoal(userId, id)
        \/ \E goalId \in GoalIds, title \in TitleInputs :
                FieldsAddSubtask(userId, goalId, title)

SpecFields == Init /\ [][NextFields]_vars

(***************************************************************************)
(* GoalService on the durable backend (isDatabaseAvailable).  Every        *)
(* `await this.prisma...` is one step of the request that issues it: the   *)
(* requests in flight interleave at these calls, and the backend may       *)
(* reject any of them.  A batch of requests is issued against the tables   *)
(* recorded in snap; when all of them are answered the next batch starts.  *)
(***************************************************************************)

\* the tables of the durable backend
Db == [goals |-> dbGoals, subtasks |-> dbSubtasks]

\* the commands a request may carry: createGoal with status ACTIVE or
\* COMPLETED and the `completed` flags of its subtasks, toggleSubtask of an
\* identifier generated so far or the next one, updateSubtask
DbCommands ==
    {[NoCmd EXCEPT !.op = "createGoal", !.userId = u, !.status = st, !.subtasks = sub] :
        u \in Users, st \in {"ACTIVE", "COMPLETED"},
        sub \in UNION {[1..n -> BOOLEAN] : n \in 0..MaxDbSubtasks}}
    \cup {[NoCmd EXCEPT !.op = "toggleSubtask", !.userId = u, !.subtaskId = s] :
            u \in Users, s \in 1..(dbIdSeq.subtask + 1)}
    \cup {[NoCmd EXCEPT !.op = "updateSubtask", !.userId = u, !.goalId = g,
                        !.subtaskId = s, !.completed = c] :
            u \in Users, g \in DOMAIN dbGoals, s \in DOMAIN dbSubtasks,
            c \in CompletedInputs}

\* the response is sent and the request is over
Answer(p, code, error) ==
    /\ pc' = [pc EXCEPT ![p] = "done"]
    /\ resp' = [resp EXCEPT ![p] = [code |-> code, error |-> error]]

\* a request arrives: the controller calls the service method
DbStart(p, c) ==
    /\ pc[p] = "idle"
    /\ c.op = "createGoal" =>
            Cardinality(DOMAIN dbGoals)
                + Cardinality({q \in Procs : pc[q] = "create"}) < MaxDbGoals
    /\ pc' = [pc EXCEPT ![p] = IF c.op = "createGoal" THEN "create" ELSE "find"]
    /\ cmd' = [cmd EXCEPT ![p] = c]
    /\ UNCHANGED <<memVars, authVars, llmVars, dbGoals, dbSubtasks, dbIdSeq, loc, resp, snap>>

\* createGoal: prisma.goal.create with the nested subtasks
DbCreateGoal(p) ==
    /\ pc[p] = "create"
    /\ LET goalId == dbIdSeq.goal + 1
           n == Len(cmd[p].subtasks)
           newIds == (dbIdSeq.subtask + 1)..(dbIdSeq.subtask + n)
       IN  /\ dbGoals' = MapSet(dbGoals, goalId,
                                [ownerId |-> cmd[p].userId, status |-> cmd[p].status])
           /\ dbSubtasks' =
                [s \in DOMAIN dbSubtasks \cup newIds |->
                    IF s \in newIds
                        THEN [goalId |-> goalId,
                              completed |-> cmd[p].subtasks[s - dbIdSeq.subtask]]
                        ELSE dbSubtasks[s]]
           /\ dbIdSeq' = [goal |-> goalId, subtask |-> dbIdSeq.subtask + n]
    /\ Answer(p, 201, "")
    /\ UNCHANGED <<memVars, authVars, llmVars, cmd, loc, snap>>

\* toggleSubtask / updateSubtask: prisma.subtask.findFirst by id (and goalId)
\* among the subtasks of the caller's goals
DbFindSubtask(p) ==
    /\ pc[p] = "find"
    /\ LET s == cmd[p].subtaskId
           found ==
                /\ s \in DOMAIN dbSubtasks
                /\ cmd[p].op = "updateSubtask" => dbSubtasks[s].goalId = cmd[p].goalId
                /\ dbGoals[dbSubtasks[s].goalId].ownerId = cmd[p].userId
       IN  IF found
               THEN /\ loc' = [loc EXCEPT ![p] = [goalId |-> dbSubtasks[s].goalId,
                                                  completed |-> dbSubtasks[s].completed,
                                                  status |-> ""]]
                    /\ pc' = [pc EXCEPT ![p] = "update"]
                    /\ UNCHANGED resp
               ELSE /\ Answer(p, 400, "Subtask not found or access denied")
                    /\ UNCHANGED loc
    /\ UNCHANGED <<memVars, authVars, llmVars, dbGoals, dbSubtasks, dbIdSeq, cmd, snap>>

\* toggleSubtask / updateSubtask: prisma.subtask.update; the controller then
\* recomputes the goal's status (updateSubtask: when `completed` was supplied)
DbUpdateSubtask(p) ==
    /\ pc[p] = "update"
    /\ LET s == cmd[p].subtaskId
           completed ==
                IF cmd[p].op = "toggleSubtask" THEN ~loc[p].completed
                ELSE IF cmd[p].completed = Undefined THEN dbSubtasks[s].completed
                ELSE cmd[p].completed = "true"
       IN  dbSubtasks' = [dbSubtasks EXCEPT ![s].completed = completed]
    /\ IF cmd[p].op = "updateSubtask" /\ cmd[p].completed = Undefined
           THEN Answer(p, 200, "")
           ELSE /\ pc' = [pc EXCEPT ![p] = "check"]
                /\ UNCHANGED resp
    /\ UNCHANGED <<memVars, authVars, llmVars, dbGoals, dbIdSeq, cmd, loc, snap>>

\* checkAndUpdateGoalCompletion: prisma.goal.findFirst with the subtasks, and
\* the choice of the status to write
DbCheckGoal(p) ==
    /\ pc[p] = "check"
    /\ LET g == IF cmd[p].op = "toggleSubtask" THEN loc[p].goalId ELSE cmd[p].goalId
           found == g \in DOMAIN dbGoals /\ dbGoals[g].ownerId = cmd[p].userId
           write ==
                IF SubtasksOf(Db, g) = {} THEN ""
                ELSE IF AllCompleted(Db, g) /\ dbGoals[g].status # "COMPLETED"
                    THEN "COMPLETED"
                ELSE IF ~AllCompleted(Db, g) /\ dbGoals[g].status = "COMPLETED"
                    THEN "ACTIVE"
                ELSE ""
       IN  IF ~found
               THEN /\ Answer(p, 400, "Goal not found or access denied")
                    /\ UNCHANGED loc
               ELSE IF write = ""
                   THEN /\ Answer(p, 200, "")
                        /\ UNCHANGED loc
                   ELSE /\ loc' = [loc EXCEPT ![p].goalId = g, ![p].status = write]
                        /\ pc' = [pc EXCEPT ![p] = "status"]
                        /\ UNCHANGED resp
    /\ UNCHANGED <<memVars, authVars, llmVars, dbGoals, dbSubtasks, dbIdSeq, cmd, snap>>

\* checkAndUpdateGoalCompletion: prisma.goal.update of the status
DbUpdateStatus(p) ==
    /\ pc[p] = "status"
    /\ dbGoals' = [dbGoals EXCEPT ![loc[p].goalId].status = loc[p].status]
    /\ Answer(p, 200, "")
    /\ UNCHANGED <<memVars, authVars, llmVars, dbSubtasks, dbIdSeq, cmd, loc, snap>>

\* the backend rejects the call the request awaits: the service rethrows and
\* the controller answers 400 with the error's message
DbError(p) ==
    /\ pc[p] \in {"create", "find", "update", "check", "status"}
    /\ Answer(p, 400, "database error")
    /\ UNCHANGED <<memVars, authVars, llmVars, dbGoals, dbSubtasks, dbIdSeq, cmd, loc, snap>>

\* all requests of the batch are answered: the next batch is issued
DbNextBatch ==
    /\ \A p \in Procs : pc[p] \in {"idle", "done"}
    /\ \E p \in Procs : pc[p] = "done"
    /\ pc' = [p \in Procs |-> "idle"]
    /\ cmd' = [p \in Procs |-> NoCmd]
    /\ loc' = [p \in Procs |-> NoLoc]
    /\ resp' = [p \in Procs |-> NoResp]
    /\ snap' = Db
    /\ UNCHANGED <<memVars, authVars, llmVars, dbGoals, dbSubtasks, dbIdSeq>>

\* the constructor with the database configured: the Maps stay empty
InitDb ==
    /\ inMemoryGoals = <<>>
    /\ inMemorySubtasks = <<>>
    /\ goalIdCounter = 1
    /\ subtaskIdCounter = 1
    /\ DbIdle
    /\ AuthIdle
    /\ LlmIdle

NextDb ==
    \/ \E p \in Procs :
        \/ \E c \in DbCommands : DbStart(p, c)
        \/ DbCreateGoal(p)
        \/ DbFindSubtask(p)
        \/ DbUpdateSubtask(p)
        \/ DbCheckGoal(p)
        \/ DbUpdateStatus(p)
        \/ DbError(p)
    \/ DbNextBatch

SpecDb == InitDb /\ [][NextDb]_vars

(***************************************************************************)
(* Properties of the in-memory store.                                      *)
(***************************************************************************)

\* what the caller sees of a failure: the HTTP status and the error message
Wire(h) == [code |-> h.code, error |-> h.error]

\* the owner of the goal a stored subtask belongs to
OwnerOfSubtask(st, s) == st.goals[st.subtasks[s].goalId].ownerId

\* C1: every goal that has at least one subtask and is neither PAUSED nor
\* CANCELLED is COMPLETED exactly when all of its subtasks are completed.
C1_StatusFollowsSubtasks ==
    \A g \in DOMAIN inMemoryGoals :
        (/\ SubtasksOf(Store, g) # {}
         /\ inMemoryGoals[g].status \notin {"PAUSED", "CANCELLED"})
            => (inMemoryGoals[g].status = "COMPLETED" <=> AllCompleted(Store, g))

\* the responses of the commands that change the completion of stored
\* subtask s for user u (a toggle, an update supplying `completed`) and are
\* answered 200
CompletionChanges(st, u, s) ==
    {h \in {HandleToggleSubtask(st, u, s)}
            \cup {HandleUpdateSubtask(st, u, st.subtasks[s].goalId, s,
                                       OnlyCompleted(completed)) :
                    completed \in {"true", "false"}} :
        h.code = 200}

\* C2: after a toggle or an update of `completed` on a subtask of an ACTIVE
\* or COMPLETED goal, the goal is COMPLETED when all of its subtasks are
\* completed and ACTIVE otherwise.
C2_RecomputeAfterCompletionChange ==
    \A u \in Users, s \in DOMAIN inMemorySubtasks :
        LET g == inMemorySubtasks[s].goalId IN
        inMemoryGoals[g].status \in {"ACTIVE", "COMPLETED"} =>
            \A h \in CompletionChanges(Store, u, s) :
                h.st.goals[g].status =
                    IF AllCompleted(h.st, g) THEN "COMPLETED" ELSE "ACTIVE"

\* the seeded goal-1 (one of three subtasks completed, ACTIVE) has become
\* COMPLETED with all three of its subtasks completed, and its owner can
\* mark one of them incomplete again
C2_Witness ==
    /\ 1 \in DOMAIN inMemoryGoals
    /\ inMemoryGoals[1].status = "COMPLETED"
    /\ SubtasksOf(Store, 1) = {1, 2, 3}
    /\ AllCompleted(Store, 1)
    /\ CompletionChanges(Store, "user-1", 2) # {}

\* C3: a toggle or an update of `completed` on a subtask of a PAUSED or
\* CANCELLED goal leaves the goal's status as it was.
C3_PausedCancelledKept ==
    \A u \in Users, s \in DOMAIN inMemorySubtasks :
        LET g == inMemorySubtasks[s].goalId IN
        inMemoryGoals[g].status \in {"PAUSED", "CANCELLED"} =>
            \A h \in CompletionChanges(Store, u, s) :
                h.st.goals[g].status = inMemoryGoals[g].status

\* C4: two toggles in a row of the same subtask restore the subtask's
\* completed flag and its goal's status.
C4_ToggleTwiceRestores ==
    \A u \in Users, s \in DOMAIN inMemorySubtasks :
        LET g == inMemorySubtasks[s].goalId
            first == HandleToggleSubtask(Store, u, s)
            second == HandleToggleSubtask(first.st, u, s)
        IN  (first.code = 200 /\ second.code = 200)
                => /\ second.st.subtasks[s].completed = inMemorySubtasks[s].completed
                   /\ second.st.goals[g].status = inMemoryGoals[g].status

\* C8: for get, update and delete of a goal and add, update and toggle of a
\* subtask, naming an entity of another user is answered exactly like
\* naming an identifier that was never issued.
C8_ForeignLooksAbsent ==
    \A u \in Users :
        LET absentGoal == goalIdCounter
            absentSubtask == subtaskIdCounter
        IN  /\ \A g \in DOMAIN inMemoryGoals :
                inMemoryGoals[g].ownerId # u =>
                    /\ Wire(HandleGetGoal(Store, u, g))
                            = Wire(HandleGetGoal(Store, u, absentGoal))
                    /\ \A status \in StatusInputs :
                            Wire(HandleUpdateGoal(Store, u, g, OnlyStatus(status)))
                                = Wire(HandleUpdateGoal(Store, u, absentGoal,
                                                        OnlyStatus(status)))
                    /\ Wire(HandleDeleteGoal(Store, u, g))
                            = Wire(HandleDeleteGoal(Store, u, absentGoal))
                    /\ Wire(HandleAddSubtask(Store, u, g, "Step"))
                            = Wire(HandleAddSubtask(Store, u, absentGoal, "Step"))
            /\ \A s \in DOMAIN inMemorySubtasks :
                OwnerOfSubtask(Store, s) # u =>
                    /\ Wire(HandleToggleSubtask(Store, u, s))
                            = Wire(HandleToggleSubtask(Store, u, absentSubtask))
                    /\ \A completed \in CompletedInputs :
                            Wire(HandleUpdateSubtask(Store, u, inMemorySubtasks[s].goalId,
                                                     s, OnlyCompleted(completed)))
                                = Wire(HandleUpdateSubtask(Store, u, absentGoal,
                                                           absentSubtask,
                                                           OnlyCompleted(completed)))

\* the responses to every command user u can issue on store st
Responses(st, u) ==
    LET goalIds == 1..st.goalIdCounter
        subtaskIds == 1..st.subtaskIdCounter
    IN  {HandleGetGoals(st, u, statusFilter) : statusFilter \in StatusInputs}
        \cup {HandleGetGoal(st, u, id) : id \in goalIds}
        \cup {HandleCreateGoal(st, u, body) : body \in CreateGoalBodies}
        \cup {HandleUpdateGoal(st, u, id, OnlyStatus(status)) :
                id \in goalIds, status \in StatusInputs}
        \cup {HandleDeleteGoal(st, u, id) : id \in goalIds}
        \cup {HandleToggleSubtask(st, u, subtaskId) : subtaskId \in subtaskIds}
        \cup {HandleAddSubtask(st, u, goalId, "Step") : goalId \in goalIds}
        \cup {HandleUpdateSubtask(st, u, goalId, subtaskId, OnlyCompleted(completed)) :
                goalId \in goalIds, subtaskId \in subtaskIds,
                completed \in CompletedInputs}

\* the goals of user u and the subtasks of those goals
OwnedBy(st, u) ==
    LET goalIds == {g \in DOMAIN st.goals : st.goals[g].ownerId = u}
        subtaskIds == {s \in DOMAIN st.subtasks : st.subtasks[s].goalId \in goalIds}
    IN  [goals |-> [g \in goalIds |-> st.goals[g]],
         subtasks |-> [s \in subtaskIds |-> st.subtasks[s]]]

\* C9: a command of user a leaves the goals and subtasks of every other user
\* as they were, and its response carries only goals and subtasks of a.
C9_Isolation ==
    \A a \in Users :
        \A h \in Responses(Store, a) :
            /\ \A b \in Users \ {a} : OwnedBy(h.st, b) = OwnedBy(Store, b)
            /\ \A goal \in h.goals : goal.ownerId = a
            /\ h.subtaskId # 0 => OwnerOfSubtask(h.st, h.subtaskId) = a

\* user-2 owns a goal while user-1, who has deleted goal-1, still owns
\* goal-2 and its subtasks
C9_Witness ==
    /\ \E g \in DOMAIN inMemoryGoals : inMemoryGoals[g].ownerId = "user-2"
    /\ 1 \notin DOMAIN inMemoryGoals
    /\ 2 \in DOMAIN inMemoryGoals
    /\ SubtasksOf(Store, 2) = {4, 5}

\* C10: every subtask references a goal that is in the store; a deleteGoal
\* answered 200 leaves no subtask of the deleted goal in the store, and the
\* subtasks it had can no longer be toggled, updated or listed.
C10_NoOrphans ==
    /\ \A s \in DOMAIN inMemorySubtasks :
            inMemorySubtasks[s].goalId \in DOMAIN inMemoryGoals
    /\ \A u \in Users, g \in DOMAIN inMemoryGoals :
        LET h == HandleDeleteGoal(Store, u, g) IN
        h.code = 200 =>
            /\ g \notin DOMAIN h.st.goals
            /\ SubtasksOf(h.st, g) = {}
            /\ \A v \in Users :
                /\ \A s \in SubtasksOf(Store, g) :
                    /\ HandleToggleSubtask(h.st, v, s).code = 400
                    /\ \A completed \in CompletedInputs :
                            HandleUpdateSubtask(h.st, v, g, s,
                                                OnlyCompleted(completed)).code = 400
                /\ \A statusFilter \in StatusInputs :
                    \A goal \in HandleGetGoals(h.st, v, statusFilter).goals :
                        goal.id # g
                /\ HandleGetGoal(h.st, v, g).code = 404

\* the seeded goal-1 has been deleted and none of its three subtasks is left
C10_Witness ==
    /\ 1 \notin DOMAIN inMemoryGoals
    /\ DOMAIN inMemorySubtasks \cap {1, 2, 3} = {}
    /\ 2 \in DOMAIN inMemoryGoals

\* the goals and the subtasks that are in store new and not in store old
AddedGoals(old, new) == DOMAIN new.goals \ DOMAIN old.goals
AddedSubtasks(old, new) == DOMAIN new.subtasks \ DOMAIN old.subtasks

\* C15: every identifier in the store was issued below its counter, no
\* command lowers a counter, and every identifier a command generates (the
\* goal of a createGoal, the subtasks of a createGoal or addSubtask) is at or
\* above the counter, hence different from every identifier issued before,
\* deleted or not.
C15_IdsUniqueNeverReused ==
    /\ \A g \in DOMAIN inMemoryGoals : g < goalIdCounter
    /\ \A s \in DOMAIN inMemorySubtasks : s < subtaskIdCounter
    /\ \A u \in Users :
        \A h \in Responses(Store, u) :
            /\ h.st.goalIdCounter >= goalIdCounter
            /\ h.st.subtaskIdCounter >= subtaskIdCounter
            /\ AddedGoals(Store, h.st) \subseteq goalIdCounter .. (h.st.goalIdCounter - 1)
            /\ AddedSubtasks(Store, h.st)
                    \subseteq subtaskIdCounter .. (h.st.subtaskIdCounter - 1)
            /\ h.code = 201 =>
                    /\ \A goal \in h.goals :
                            goal.id \in AddedGoals(Store, h.st) /\ goal.id >= goalIdCounter
                    /\ h.subtaskId # 0 =>
                            /\ h.subtaskId \in AddedSubtasks(Store, h.st)
                            /\ h.subtaskId >= subtaskIdCounter

\* the seeded goal-1 has been deleted and a goal has been created after it
C15_Witness ==
    /\ 1 \notin DOMAIN inMemoryGoals
    /\ \E g \in DOMAIN inMemoryGoals : g >= SeedStore.goalIdCounter
    /\ goalIdCounter > SeedStore.goalIdCounter

(***************************************************************************)
(* Properties of the commands that carry titles, priorities and due dates. *)
(***************************************************************************)

\* the request bodies of createGoal the properties range over: the
\* acceptable ones and every unacceptable variant of each
CreateGoalInputs == ValidGoalData \cup UNION {Invalidated(body) : body \in ValidGoalData}

\* everything that is in store old is in store new as it was
Kept(old, new) ==
    /\ \A g \in DOMAIN old.goals : g \in DOMAIN new.goals /\ new.goals[g] = old.goals[g]
    /\ \A s \in DOMAIN old.subtasks :
            s \in DOMAIN new.subtasks /\ new.subtasks[s] = old.subtasks[s]

\* the position of identifier id among the identifiers ids, in the order of
\* their creation
Rank(ids, id) == Cardinality({x \in ids : x <= id})

\* C11: a createGoal with N subtasks that is answered 201 adds exactly one
\* goal and exactly N subtasks, all referencing the new goal, the i-th of
\* them completed exactly when the i-th supplied subtask was marked
\* completed, and changes nothing else; a rejected createGoal adds neither a
\* goal nor a subtask.
C11_CreateAddsGoalAndSubtasks ==
    \A u \in Users, body \in CreateGoalInputs :
        LET h == HandleCreateGoal(Store, u, body)
            goals == AddedGoals(Store, h.st)
            subtasks == AddedSubtasks(Store, h.st)
        IN  /\ Kept(Store, h.st)
            /\ h.code \in {201, 400}
            /\ h.code = 400 => goals = {} /\ subtasks = {}
            /\ h.code = 201 =>
                    /\ Cardinality(goals) = 1
                    /\ Cardinality(subtasks) = Len(body.subtasks)
                    /\ \A g \in goals :
                            /\ h.st.goals[g].ownerId = u
                            /\ SubtasksOf(h.st, g) = subtasks
                    /\ \A s \in subtasks :
                            h.st.subtasks[s].completed
                                = (body.subtasks[Rank(subtasks, s)].completed = "true")

\* a goal has been created together with two subtasks, the first marked
\* completed and the second not marked
C11_Witness ==
    \E g \in DOMAIN inMemoryGoals \ DOMAIN SeedStore.goals :
        \E s, t \in DOMAIN inMemorySubtasks :
            /\ s < t
            /\ SubtasksOf(Store, g) = {s, t}
            /\ inMemorySubtasks[s].completed
            /\ ~inMemorySubtasks[t].completed

\* the request bodies of updateGoal the properties range over: every choice
\* of supplied keys, each with an acceptable value
UpdateGoalInputs ==
    [title : {Undefined, "Plan B"},
     description : {Undefined, "", "notes"},
     priority : {Undefined, "LOW"},
     status : {Undefined, "PAUSED"},
     dueDate : {Undefined, "2025-12-01"},
     subtasks : {<<>>, <<[title |-> "Step", completed |-> "true"]>>}]

\* the value a goal's key has after an update that supplied `supplied`
AfterUpdate(old, supplied) == IF supplied = Undefined THEN old ELSE supplied

\* C12: an updateGoal answered 200 sets the keys it supplies and leaves
\* every other key of the goal, its owner, its subtasks and every other
\* goal as they were; the update supplying priority LOW alone changes the
\* priority to LOW and nothing else.
C12_UpdateGoalIsPartial ==
    \A g \in DOMAIN inMemoryGoals, body \in UpdateGoalInputs :
        LET old == inMemoryGoals[g]
            h == HandleUpdateGoal(Store, old.ownerId, g, body)
            new == h.st.goals[g]
        IN  /\ h.code = 200
            /\ DOMAIN h.st.goals = DOMAIN inMemoryGoals
            /\ \A other \in DOMAIN inMemoryGoals \ {g} :
                    h.st.goals[other] = inMemoryGoals[other]
            /\ h.st.subtasks = inMemorySubtasks
            /\ h.st.goalIdCounter = goalIdCounter
            /\ h.st.subtaskIdCounter = subtaskIdCounter
            /\ new.ownerId = old.ownerId
            /\ new.title = AfterUpdate(old.title, body.title)
            /\ new.description = AfterUpdate(old.description, body.description)
            /\ new.priority = AfterUpdate(old.priority, body.priority)
            /\ new.status = AfterUpdate(old.status, body.status)
            /\ new.dueDate = AfterUpdate(old.dueDate,
                                         IF body.dueDate = Undefined THEN Undefined
                                         ELSE ToISOString(body.dueDate))
            /\ body = [NoGoalData EXCEPT !.priority = "LOW"]
                    => new = [old EXCEPT !.priority = "LOW"]

\* the seeded goal-1 has priority LOW where it was seeded HIGH, with its
\* seeded title, description, status, due date, owner and subtasks
C12_Witness ==
    /\ 1 \in DOMAIN inMemoryGoals
    /\ inMemoryGoals[1] = [SeedStore.goals[1] EXCEPT !.priority = "LOW"]
    /\ \A s \in {1, 2, 3} :
            s \in DOMAIN inMemorySubtasks /\ inMemorySubtasks[s] = SeedStore.subtasks[s]

\* the variants of body the schema in use must reject: for updateGoalSchema
\* a missing title is acceptable
Rejected(body, partial) ==
    {bad \in Invalidated(body) : partial => bad.title # Undefined}

\* the update that supplies every key with an acceptable value
FullUpdate ==
    [title |-> "Plan B", description |-> "notes", priority |-> "LOW", status |-> "PAUSED",
     dueDate |-> "2025-12-01", subtasks |-> <<[title |-> "Step", completed |-> "true"]>>]

\* C13: a createGoal or updateGoal whose input has an empty (or, for create,
\* missing) title, a priority outside the enum, a due date that does not
\* parse or a subtask without title is answered 400 and leaves goals,
\* subtasks and both identifier counters exactly as they were.
C13_InvalidInputChangesNothing ==
    \A u \in Users :
        /\ \A body \in ValidGoalData :
                \A bad \in Rejected(body, FALSE) :
                    LET h == HandleCreateGoal(Store, u, bad)
                    IN  h.code = 400 /\ h.st = Store
        /\ \A g \in GoalIds, body \in {NoGoalData, FullUpdate} :
                \A bad \in Rejected(body, TRUE) :
                    LET h == HandleUpdateGoal(Store, u, g, bad)
                    IN  h.code = 400 /\ h.st = Store

\* a goal and a subtask have been created since the seed, and the owner of
\* the new goal submits an update of it with a priority outside the enum
C13_Witness ==
    /\ goalIdCounter > SeedStore.goalIdCounter
    /\ subtaskIdCounter > SeedStore.subtaskIdCounter
    /\ \E g \in DOMAIN inMemoryGoals \ DOMAIN SeedStore.goals :
            HandleUpdateGoal(Store, inMemoryGoals[g].ownerId, g,
                             [NoGoalData EXCEPT !.priority = "URGENT"]).code = 400

\* the titles that are empty or consist of whitespace only, among those a
\* request may carry
BlankTitles == {"", " "}

\* C14: every goal and every subtask in the store has a title that is
\* neither empty nor whitespace only, and every createGoal, addSubtask,
\* updateGoal and updateSubtask that supplies such a title is answered as
\* failed.
C14_TitlesNonEmpty ==
    /\ \A g \in DOMAIN inMemoryGoals : inMemoryGoals[g].title \notin BlankTitles
    /\ \A s \in DOMAIN inMemorySubtasks : inMemorySubtasks[s].title \notin BlankTitles
    /\ \A u \in Users, title \in BlankTitles :
        /\ HandleCreateGoal(Store, u, [NoGoalData EXCEPT !.title = title]).code = 400
        /\ HandleCreateGoal(Store, u,
                [NoGoalData EXCEPT !.title = "Plan",
                                   !.subtasks = <<[title |-> title,
                                                   completed |-> Undefined]>>]).code = 400
        /\ \A g \in GoalIds :
            /\ HandleUpdateGoal(Store, u, g, [NoGoalData EXCEPT !.title = title]).code = 400
            /\ HandleAddSubtask(Store, u, g, title).code = 400
            /\ \A s \in SubtaskIds :
                    HandleUpdateSubtask(Store, u, g, s,
                                        [title |-> title, completed |-> Undefined]).code = 400

(***************************************************************************)
(* Properties of the durable-backend path.                                 *)
(***************************************************************************)

\* the requests of the current batch that have been answered
Answered == {p \in Procs : pc[p] = "done"}

\* every request of the current batch has been answered
BatchOver == Answered # {} /\ \A p \in Procs : pc[p] \in {"idle", "done"}

\* request p was a toggle of a subtask of goal g and was answered 200
ToggledIn(p, g) ==
    /\ cmd[p].op = "toggleSubtask"
    /\ resp[p].code = 200
    /\ dbSubtasks[cmd[p].subtaskId].goalId = g

\* in tables st, goal g is COMPLETED with an incomplete subtask or ACTIVE
\* with all of its subtasks completed
StatusContradictsSubtasks(st, g) ==
    /\ SubtasksOf(st, g) # {}
    /\ \/ st.goals[g].status = "COMPLETED" /\ ~AllCompleted(st, g)
       \/ st.goals[g].status = "ACTIVE" /\ AllCompleted(st, g)

\* C5: once concurrent toggles of subtasks of one goal have all finished,
\* the goal is not COMPLETED with an incomplete subtask and not ACTIVE with
\* all subtasks completed (checked for batches issued against tables in
\* which the goal's status did not contradict its subtasks).
C5_TogglesSerializedPerGoal ==
    \A g \in DOMAIN dbGoals :
        (/\ BatchOver
         /\ \A p \in Answered : ToggledIn(p, g)
         /\ g \in DOMAIN snap.goals
         /\ ~StatusContradictsSubtasks(snap, g))
            => ~StatusContradictsSubtasks(Db, g)

\* C6: two concurrent toggles of two different incomplete subtasks of one
\* goal, after which all subtasks of the goal are completed, leave the goal
\* COMPLETED.
C6_BothCompletedGoalCompleted ==
    \A g \in DOMAIN dbGoals :
        \A p, q \in Procs :
            (/\ BatchOver
             /\ p # q
             /\ ToggledIn(p, g) /\ ToggledIn(q, g)
             /\ cmd[p].subtaskId # cmd[q].subtaskId
             /\ ~snap.subtasks[cmd[p].subtaskId].completed
             /\ ~snap.subtasks[cmd[q].subtaskId].completed
             /\ AllCompleted(Db, g))
                => dbGoals[g].status = "COMPLETED"

\* C7: when a toggle or an update of a subtask is answered as failed, the
\* subtask's completed flag and its goal's status are what they were when
\* the command was issued (checked for a command that runs alone).
C7_FailedCommandChangesNothing ==
    \A p \in Procs :
        (/\ BatchOver
         /\ Answered = {p}
         /\ cmd[p].op \in {"toggleSubtask", "updateSubtask"}
         /\ resp[p].code = 400
         /\ cmd[p].subtaskId \in DOMAIN snap.subtasks)
            => LET s == cmd[p].subtaskId
                   g == snap.subtasks[s].goalId
               IN  /\ dbSubtasks[s].completed = snap.subtasks[s].completed
                   /\ dbGoals[g].status = snap.goals[g].status

(***************************************************************************)
(* The two implementations of the store against each other: a command that *)
(* runs alone on the durable backend, and the same command on an in-memory *)
(* store with the same contents.                                           *)
(***************************************************************************)

\* the in-memory store that holds what the backend's tables hold; the
\* backend has issued the identifiers 1..n, so its next ones are the
\* counters; every goal and subtask carries the same title
Lifted(tables) ==
    MkStore([g \in DOMAIN tables.goals |->
                [ownerId |-> tables.goals[g].ownerId, status |-> tables.goals[g].status,
                 title |-> "Plan", description |-> Undefined, priority |-> "MEDIUM",
                 dueDate |-> Undefined]],
            [s \in DOMAIN tables.subtasks |->
                [goalId |-> tables.subtasks[s].goalId,
                 completed |-> tables.subtasks[s].completed, title |-> "Step"]],
            Cardinality(DOMAIN tables.goals) + 1,
            Cardinality(DOMAIN tables.subtasks) + 1)

\* what the backend's tables record of an in-memory store
Essence(st) ==
    [goals |-> [g \in DOMAIN st.goals |->
                    [ownerId |-> st.goals[g].ownerId, status |-> st.goals[g].status]],
     subtasks |-> [s \in DOMAIN st.subtasks |->
                    [goalId |-> st.subtasks[s].goalId,
                     completed |-> st.subtasks[s].completed]]]

\* the response of the in-memory implementation to command c on store st
InMemoryAnswer(c, st) ==
    CASE c.op = "toggleSubtask" -> HandleToggleSubtask(st, c.userId, c.subtaskId)
      [] c.op = "updateSubtask" ->
            HandleUpdateSubtask(st, c.userId, c.goalId, c.subtaskId,
                                OnlyCompleted(c.completed))
      [] OTHER ->
            HandleCreateGoal(st, c.userId,
                [NoGoalData EXCEPT
                    !.title = "Plan", !.status = c.status,
                    !.subtasks = [i \in DOMAIN c.subtasks |->
                                    [title |-> "Step",
                                     completed |-> IF c.subtasks[i] THEN "true"
                                                   ELSE "false"]]])

\* the dueDate of a goal in the payload of the durable implementation:
\* formatGoalResponse of the Date built from validatedData.dueDate
FormatGoalResponseDueDate(dueDate) ==
    IF dueDate = Undefined THEN Undefined ELSE SubSeq(dueDate, 1, 10)

\* C16: a command that runs alone on the durable backend, without a failure
\* of the backend, is answered like the same command on the in-memory store
\* with the same contents and leaves the same goals and subtasks; and the
\* due date of a created goal is the same in the payloads of both.
C16_ImplementationsEquivalent ==
    /\ \A p \in Procs :
            (/\ BatchOver
             /\ Answered = {p}
             /\ resp[p].error # "database error")
                => LET h == InMemoryAnswer(cmd[p], Lifted(snap))
                   IN  /\ Wire(h) = resp[p]
                       /\ Essence(h.st) = Db
    /\ \A body \in ValidGoalData :
            LET validatedData == GoalSchemaParse(body, FALSE).data
            IN  validatedData.dueDate = FormatGoalResponseDueDate(validatedData.dueDate)

(***************************************************************************)
(* Suggested subtasks: LLMService.generateSubtasks without a configured    *)
(* Gemini key (src/backend/src/services/llmService.js).  The request body  *)
(* is validated and handed to generateSubtasksFallback; a body that fails  *)
(* validation reaches the same function through the catch branch.          *)
(* Of each suggested task the model keeps the title, the estimated hours,  *)
(* the priority, the dependencies and the category (description and skills *)
(* are fixed texts that nothing reads).                                    *)
(***************************************************************************)
\* words a goal description is made of
MaxWords == 3
\* team sizes a request names
MaxTeamSize == 2
\* subtasks.slice(0, 6)
SubtaskLimit == 6
\* subtasks.slice(0, 3)
CriticalPathLimit == 3

UpperCase == "ABCDEFGHIJKLMNOPQRSTUVWXYZ"
LowerCase == "abcdefghijklmnopqrstuvwxyz"

\* String.prototype.toLowerCase, one character
LowerChar(c) ==
    IF \E i \in 1..Len(UpperCase) : SubSeq(UpperCase, i, i) = c
    THEN LET i == CHOOSE i \in 1..Len(UpperCase) : SubSeq(UpperCase, i, i) = c
         IN  SubSeq(LowerCase, i, i)
    ELSE c

RECURSIVE ToLowerCase(_)
ToLowerCase(s) ==
    IF Len(s) = 0 THEN ""
    ELSE LowerChar(SubSeq(s, 1, 1)) \o ToLowerCase(SubSeq(s, 2, Len(s)))

\* String.prototype.includes
Includes(s, w) ==
    \E i \in 1..(Len(s) + 1 - Len(w)) : SubSeq(s, i, i + Len(w) - 1) = w

\* Array.prototype.slice(0, n)
Slice(seq, n) == SubSeq(seq, 1, IF Len(seq) < n THEN Len(seq) ELSE n)

Titles(subtasks) == [i \in DOMAIN subtasks |-> subtasks[i].title]

RECURSIVE TotalHours(_)
TotalHours(subtasks) ==
    IF subtasks = <<>> THEN 0
    ELSE subtasks[1].estimatedHours + TotalHours(Tail(subtasks))

Task(title, estimatedHours, priority, dependencies, category) ==
    [title |-> title, estimatedHours |-> estimatedHours, priority |-> priority,
     dependencies |-> dependencies, category |-> category]

ScopeTitle == "Define project scope and requirements"
SetupTitle == "Set up development environment"
ImplementTitle == "Implement core functionality"
TestingTitle == "Conduct thorough testing"
DeployTitle == "Prepare for deployment"
CoordinateTitle == "Coordinate team activities"
ReviewTitle == "Final review and documentation"

\* const { priority = 'MEDIUM', teamSize = 1 } = context
TeamSizeOf(context) ==
    IF "teamSize" \in DOMAIN context THEN context.teamSize ELSE 1

\* the local array `subtasks` of generateSubtasksFallback before it returns
FallbackSubtasks(goalDescription, context) ==
    LET teamSize == TeamSizeOf(context)
        words == ToLowerCase(goalDescription)
        planning == << Task(ScopeTitle, 3, "HIGH", <<>>, "planning") >>
        execution ==
            IF Includes(words, "develop") \/ Includes(words, "build")
                    \/ Includes(words, "create")
            THEN << Task(SetupTitle, 2, "HIGH", <<ScopeTitle>>, "execution"),
                    Task(ImplementTitle, 12, "HIGH", <<SetupTitle>>, "execution") >>
            ELSE <<>>
        testing ==
            IF Includes(words, "test") \/ Includes(words, "qa")
                    \/ Includes(words, "quality")
            THEN << Task(TestingTitle, 4, "HIGH", <<ImplementTitle>>, "review") >>
            ELSE <<>>
        deployment ==
            IF Includes(words, "deploy") \/ Includes(words, "launch")
                    \/ Includes(words, "release")
            THEN << Task(DeployTitle, 3, "MEDIUM", <<TestingTitle>>, "execution") >>
            ELSE <<>>
        communication ==
            IF teamSize > 1
            THEN << Task(CoordinateTitle, 2, "MEDIUM", <<>>, "communication") >>
            ELSE <<>>
        pushed == planning \o execution \o testing \o deployment \o communication
    IN  pushed \o << Task(ReviewTitle, 2, "MEDIUM",
                          <<pushed[Len(pushed)].title>>, "review") >>

\* generateSubtasksFallback that returns the whole array
GenerateSubtasksFallbackUntruncated(goalDescription, context) ==
    LET subtasks == FallbackSubtasks(goalDescription, context)
    IN  [success |-> TRUE,
         subtasks |-> subtasks,
         estimatedTotalHours |-> TotalHours(subtasks),
         criticalPath |-> Titles(Slice(subtasks, CriticalPathLimit)),
         generatedBy |-> "fallback-algorithm"]

GenerateSubtasksFallback(goalDescription, context) ==
    LET subtasks == FallbackSubtasks(goalDescription, context)
    IN  [success |-> TRUE,
         subtasks |-> Slice(subtasks, SubtaskLimit),
         estimatedTotalHours |-> TotalHours(subtasks),
         criticalPath |-> Titles(Slice(subtasks, CriticalPathLimit)),
         generatedBy |-> "fallback-algorithm"]

\* the words of the goal descriptions: every keyword of the fallback, in
\* lower, upper or mixed case, and one word that is no keyword
Vocabulary ==
    {"Develop", "build", "create", "test", "QA", "quality", "deploy", "launch",
     "release", "plan"}

RECURSIVE JoinWords(_)
JoinWords(ws) ==
    IF Len(ws) = 1 THEN ws[1] ELSE ws[1] \o " " \o JoinWords(Tail(ws))

GoalDescriptions ==
    {"", "build and test a checkout flow"}
        \cup { JoinWords(ws) : ws \in UNION { [1..n -> Vocabulary] : n \in 1..MaxWords } }

\* context objects: without a team size, and with each team size
Contexts ==
    {[priority |-> "MEDIUM"]}
        \cup { [priority |-> "MEDIUM", teamSize |-> n] : n \in 1..MaxTeamSize }

LlmInputs == [goalDescription : GoalDescriptions, context : Contexts]

\* POST /api/llm/generate-subtasks
GenerateSubtasks ==
    /\ llmResult = NoLlmResult
    /\ llmResult' = GenerateSubtasksFallback(llmInput.goalDescription, llmInput.context)
    /\ UNCHANGED <<memVars, authVars, dbVars, llmInput, geminiVars>>

InitLlm ==
    /\ inMemoryGoals = SeedStore.goals
    /\ inMemorySubtasks = SeedStore.subtasks
    /\ goalIdCounter = SeedStore.goalIdCounter
    /\ subtaskIdCounter = SeedStore.subtaskIdCounter
    /\ DbIdle
    /\ AuthIdle
    /\ llmInput \in LlmInputs
    /\ llmResult = NoLlmResult
    /\ GeminiIdle

NextLlm == GenerateSubtasks

SpecLlm == InitLlm /\ [][NextLlm]_vars

(***************************************************************************)
(* Properties of the suggested subtasks.                                   *)
(***************************************************************************)
Generated == llmResult.success

Described(keywords) ==
    \E w \in keywords : Includes(ToLowerCase(llmInput.goalDescription), w)

ScenarioTitles ==
    <<ScopeTitle>>
        \o (IF Described({"build", "develop", "create"})
            THEN <<SetupTitle, ImplementTitle>> ELSE <<>>)
        \o (IF Described({"test", "qa"}) THEN <<TestingTitle>> ELSE <<>>)
        \o (IF Described({"deploy", "launch", "release"}) THEN <<DeployTitle>> ELSE <<>>)
        \o (IF TeamSizeOf(llmInput.context) > 1 THEN <<CoordinateTitle>> ELSE <<>>)
        \o <<ReviewTitle>>

\* C17: the returned tasks are, in this order, scope; setup and
\* implementation iff the description contains build, develop or create;
\* testing iff it contains test or qa; deployment iff it contains deploy,
\* launch or release; coordination iff the team size exceeds 1; closing
\* review.  "build and test a checkout flow" with team size 1 gives scope,
\* setup, implementation, testing, review.
C17_FixedOrder ==
    /\ Generated => Titles(llmResult.subtasks) = ScenarioTitles
    /\ Titles(GenerateSubtasksFallback("build and test a checkout flow",
                    [priority |-> "MEDIUM", teamSize |-> 1]).subtasks)
            = <<ScopeTitle, SetupTitle, ImplementTitle, TestingTitle, ReviewTitle>>

\* C18: the returned list begins with the scope-definition task and ends
\* with the closing review task.
C18_ScopeFirstReviewLast ==
    Generated =>
        /\ llmResult.subtasks[1].title = ScopeTitle
        /\ llmResult.subtasks[Len(llmResult.subtasks)].title = ReviewTitle

\* C20: the first returned item has no dependency, and every later item
\* has a dependency that names the title of the item just before it.
C20_DependsOnPreceding ==
    Generated =>
        /\ llmResult.subtasks[1].dependencies = <<>>
        /\ \A i \in 2..Len(llmResult.subtasks) :
                \E d \in DOMAIN llmResult.subtasks[i].dependencies :
                    llmResult.subtasks[i].dependencies[d]
                        = llmResult.subtasks[i - 1].title

(***************************************************************************)
(* LLMService.generateSubtasks with and without the external provider, and *)
(* LLMController.generateSubtasks around it.  The text the provider        *)
(* returns is modelled by what JSON.parse makes of it: no JSON, JSON       *)
(* without a subtasks array, or JSON with an array of tasks.               *)
(***************************************************************************)
\* z.number().min(1).max(20)
MaxSchemaTeamSize == 20
\* tasks in a provider's answer
MaxProviderTasks == 2

\* a service call that returned, and one that threw
LlmReturn(result) == [threw |-> FALSE, error |-> "", result |-> result]
LlmThrow(msg) == [threw |-> TRUE, error |-> msg, result |-> NoLlmResult]

\* const { goalDescription, context = {} } = input
ContextOf(input) ==
    IF "context" \in DOMAIN input THEN input.context ELSE [priority |-> "MEDIUM"]

\* generateSubtasksSchema.parse(input) succeeds
GenerateSubtasksSchemaOk(input) ==
    /\ "goalDescription" \in DOMAIN input
    /\ Len(input.goalDescription) >= 1
    /\ ("context" \in DOMAIN input /\ "teamSize" \in DOMAIN input.context)
            => input.context.teamSize \in 1..MaxSchemaTeamSize

\* a catch branch that hands the failure on to the caller
CatchBranchRethrow(input) == LlmThrow("Failed to parse LLM response")

\* the catch branch of generateSubtasks: the fallback on the raw input;
\* undefined.toLowerCase() throws a TypeError
CatchBranch(input) ==
    IF "goalDescription" \notin DOMAIN input
    THEN LlmThrow("Cannot read properties of undefined (reading 'toLowerCase')")
    ELSE LlmReturn(GenerateSubtasksFallback(input.goalDescription, ContextOf(input)))

\* tasks as the provider may write them: the title or the priority may be
\* missing or unusable
ProviderTasks == [title : {"", "Sketch"}, priority : {"HIGH", "URGENT"}]

ProviderOutcomes ==
    {[kind |-> k, subtasks |-> <<>>] : k \in {"rejects", "notJson", "noSubtasksArray"}}
        \cup {[kind |-> "json", subtasks |-> ts] :
                ts \in UNION { [1..n -> ProviderTasks] : n \in 0..MaxProviderTasks }}

\* parseSubtasksResponse
ParseSubtasksResponse(outcome) ==
    IF outcome.kind # "json"
    THEN LlmThrow("Failed to parse LLM response")
    ELSE LlmReturn(
            [success |-> TRUE,
             subtasks |->
                [i \in DOMAIN outcome.subtasks |->
                    Task(IF outcome.subtasks[i].title = ""
                            THEN "Subtask " \o ToString(i)
                            ELSE outcome.subtasks[i].title,
                         0,
                         IF outcome.subtasks[i].priority \in Priorities
                            THEN outcome.subtasks[i].priority ELSE "MEDIUM",
                         <<>>, "execution")],
             estimatedTotalHours |-> 0,
             criticalPath |-> <<>>,
             generatedBy |-> "openai-gpt4"])

\* LLMController.generateSubtasks answers with what the service did
LlmAnswered(r, outcome) ==
    /\ llmPc' = "done"
    /\ llmOutcome' = outcome
    /\ llmResult' = r.result
    /\ llmResponse' = IF r.threw THEN [code |-> 400, error |-> r.error]
                                 ELSE [code |-> 200, error |-> ""]
    /\ UNCHANGED <<memVars, authVars, dbVars, llmInput, isGeminiAvailable>>

\* generateSubtasks up to its first await
GenerateSubtasksStart ==
    /\ llmPc = "idle"
    /\ IF ~GenerateSubtasksSchemaOk(llmInput)
       THEN LlmAnswered(CatchBranch(llmInput), NoOutcome)
       ELSE IF ~isGeminiAvailable
       THEN LlmAnswered(LlmReturn(GenerateSubtasksFallback(llmInput.goalDescription,
                                                          ContextOf(llmInput))),
                        NoOutcome)
       ELSE /\ llmPc' = "generateContent"
            /\ UNCHANGED <<memVars, authVars, dbVars, llmInput, llmResult, isGeminiAvailable,
                           llmOutcome, llmResponse>>

\* the provider rejects or answers; generateSubtasks runs to its end
GenerateContentSettles(outcome) ==
    /\ llmPc = "generateContent"
    /\ LET parsed == ParseSubtasksResponse(outcome)
       IN  LlmAnswered(IF outcome.kind = "rejects" \/ parsed.threw
                        THEN CatchBranch(llmInput) ELSE parsed,
                       outcome)

\* request bodies: descriptions of at most one word, with and without a
\* context, and bodies without a description
ShortDescriptions == {"", "build and test a checkout flow"} \cup Vocabulary

GenerateBodies ==
    [goalDescription : ShortDescriptions, context : Contexts]
        \cup [goalDescription : ShortDescriptions]
        \cup [context : Contexts]

InitGemini ==
    /\ inMemoryGoals = SeedStore.goals
    /\ inMemorySubtasks = SeedStore.subtasks
    /\ goalIdCounter = SeedStore.goalIdCounter
    /\ subtaskIdCounter = SeedStore.subtaskIdCounter
    /\ DbIdle
    /\ AuthIdle
    /\ llmInput \in GenerateBodies
    /\ llmResult = NoLlmResult
    /\ isGeminiAvailable \in BOOLEAN
    /\ llmPc = "idle"
    /\ llmOutcome = NoOutcome
    /\ llmResponse = NoResp

NextGemini ==
    \/ GenerateSubtasksStart
    \/ \E outcome \in ProviderOutcomes : GenerateContentSettles(outcome)

SpecGemini == InitGemini /\ [][NextGemini]_vars

\* GenerateSubtasksStart, told by what it does to llmPc
GenerateSubtasksBegins ==
    /\ llmPc = "idle"
    /\ llmPc' \in {"generateContent", "done"}

\* the server runs every handler up to its next await; nothing makes the
\* provider settle the call
SpecGeminiLive == SpecGemini /\ WF_llmPc(GenerateSubtasksBegins)

C22_EventuallyReturns == <>(llmPc = "done")

\* C23: whatever the request (description present, empty or missing, with
\* or without a context), when generateSubtasks ends in the fallback the
\* caller gets a result and no error.
C23_FallbackTotal ==
    (llmPc = "done" /\ llmOutcome.kind # "json")
        => /\ llmResponse.code = 200
           /\ llmResult.success

\* C24: a request whose description is missing or empty is answered with a
\* failure and no suggested subtasks.
C24_InvalidRequestIsFailure ==
    (/\ llmPc = "done"
     /\ ("goalDescription" \notin DOMAIN llmInput \/ llmInput.goalDescription = ""))
        => /\ llmResponse.code = 400
           /\ llmResult = NoLlmResult

(***************************************************************************)
(* AuthService on its in-memory user store                                 *)
(* (src/backend/src/services/authService.js), AuthController               *)
(* (src/backend/src/controllers/authController.js) and the authenticate    *)
(* middleware (src/backend/src/middleware/requestLogger.js, from line 36). *)
(* register and login run up to their one await (bcrypt) and then to their *)
(* end; requests of different clients interleave at that await.            *)
(*                                                                         *)
(* A JSON web token is modelled by the text  type ":" userId "#" mark,     *)
(* where the mark "S" stands for a signature made with config.jwt.secret   *)
(* that has not expired; a bcrypt hash by the text "$2a$" password.        *)
(***************************************************************************)
\* users the store may hold
MaxUsers == 2
\* z.string().min(6, 'Password must be at least 6 characters')
MinPasswordLength == 6
\* authHeader.substring(7)
BearerPrefixLength == 7

\* String.prototype.startsWith
StartsWith(s, prefix) ==
    /\ Len(s) >= Len(prefix)
    /\ SubSeq(s, 1, Len(prefix)) = prefix

\* the positions of character c in s
Positions(s, c) == {i \in 1..Len(s) : SubSeq(s, i, i) = c}

\* z.string().email(): one "@", something before it, and after it a domain
\* with a dot that is followed by at least two characters
IsEmail(s) ==
    /\ Cardinality(Positions(s, "@")) = 1
    /\ LET at == CHOOSE i \in Positions(s, "@") : TRUE
           domain == SubSeq(s, at + 1, Len(s))
       IN  /\ at > 1
           /\ \E d \in Positions(domain, ".") : d > 1 /\ Len(domain) - d >= 2

\* bcrypt.hash and bcrypt.compare
HashPassword(password) == "$2a$" \o password
ComparePassword(password, hashedPassword) == HashPassword(password) = hashedPassword

\* jwt.sign(payload, config.jwt.secret, ...)
JwtSign(payload) == payload.type \o ":" \o payload.userId \o "#S"

\* jwt.verify(token, config.jwt.secret): the payload, when the token has
\* the shape of a token and its signature is the server's and is in date
JwtVerify(token) ==
    LET colons == Positions(token, ":")
        hashes == Positions(token, "#")
    IN  IF Cardinality(colons) = 1 /\ Cardinality(hashes) = 1
        THEN LET c == CHOOSE i \in colons : TRUE
                 h == CHOOSE i \in hashes : TRUE
             IN  [ok |-> c < h /\ SubSeq(token, h + 1, Len(token)) = "S",
                  type |-> SubSeq(token, 1, c - 1),
                  userId |-> SubSeq(token, c + 1, h - 1)]
        ELSE [ok |-> FALSE, type |-> "", userId |-> ""]

\* AuthService.generateTokens
GenerateTokens(userId) ==
    [accessToken |-> JwtSign([userId |-> userId, type |-> "access"]),
     refreshToken |-> JwtSign([userId |-> userId, type |-> "refresh"])]

\* verifyToken that does not look at the type of the token
VerifyTokenAnyType(token, type) ==
    LET decoded == JwtVerify(token)
    IN  [ok |-> decoded.ok, userId |-> IF decoded.ok THEN decoded.userId ELSE ""]

\* AuthService.verifyToken: a wrong type throws like a failed verification
VerifyToken(token, type) ==
    LET decoded == JwtVerify(token)
    IN  IF decoded.ok /\ decoded.type = type
        THEN [ok |-> TRUE, userId |-> decoded.userId]
        ELSE [ok |-> FALSE, userId |-> ""]

\* the authenticate middleware: next() is called, or the response is sent
Authenticate(authHeader) ==
    IF authHeader = Undefined \/ authHeader = "" \/ ~StartsWith(authHeader, "Bearer ")
    THEN [next |-> FALSE, code |-> 401, error |-> "Access token required", userId |-> ""]
    ELSE LET decoded == VerifyToken(SubSeq(authHeader, BearerPrefixLength + 1,
                                           Len(authHeader)), "access")
         IN  IF decoded.ok
             THEN [next |-> TRUE, code |-> 0, error |-> "", userId |-> decoded.userId]
             ELSE [next |-> FALSE, code |-> 401, error |-> "Invalid or expired token",
                   userId |-> ""]

\* registerSchema that accepts every password
RegisterSchemaErrorAnyPassword(userData) ==
    IF ~IsEmail(userData.email) THEN "Invalid email format" ELSE ""

\* registerSchema.parse: the message of the first issue, "" when there is none
RegisterSchemaError(userData) ==
    IF ~IsEmail(userData.email) THEN "Invalid email format"
    ELSE IF Len(userData.password) < MinPasswordLength
    THEN "Password must be at least 6 characters"
    ELSE ""

\* loginSchema.parse
LoginSchemaError(credentials) ==
    IF ~IsEmail(credentials.email) THEN "Invalid email format"
    ELSE IF Len(credentials.password) < 1 THEN "Password is required"
    ELSE ""

\* the users that have the email, in the order of the Map
UsersWithEmail(users, email) == {u \in DOMAIN users : users[u].email = email}

\* user-n
UserId(n) == "user-" \o ToString(n)

\* the first entry of the Map with the email: ids are issued in order
FirstUserWithEmail(users, email) ==
    CHOOSE n \in 1..Cardinality(DOMAIN users) :
        /\ UserId(n) \in UsersWithEmail(users, email)
        /\ \A k \in 1..(n - 1) : UserId(k) \notin UsersWithEmail(users, email)

\* the response is sent and the request is over
AuthAnswered(p, code, error, userId, tokens) ==
    /\ authPc' = [authPc EXCEPT ![p] = "done"]
    /\ authResp' = [authResp EXCEPT
            ![p] = [code |-> code, error |-> error, userId |-> userId, tokens |-> tokens]]

\* register and registerInMemory up to `await this.hashPassword`
RegisterStart(p, userData) ==
    /\ authPc[p] = "idle"
    /\ Cardinality(DOMAIN inMemoryUsers)
            + Cardinality({q \in Procs : authPc[q] = "hashPassword"}) < MaxUsers
    /\ authCmd' = [authCmd EXCEPT
            ![p] = [op |-> "register", email |-> userData.email,
                    password |-> userData.password, header |-> ""]]
    /\ IF RegisterSchemaError(userData) # ""
       THEN AuthAnswered(p, 400, RegisterSchemaError(userData), "", NoTokens)
       ELSE IF UsersWithEmail(inMemoryUsers, userData.email) # {}
       THEN AuthAnswered(p, 400, "User with this email already exists", "", NoTokens)
       ELSE /\ authPc' = [authPc EXCEPT ![p] = "hashPassword"]
            /\ UNCHANGED authResp
    /\ UNCHANGED <<memVars, dbVars, llmVars, inMemoryUsers, userIdCounter, authLoc>>

\* registerInMemory after the hash: the user is stored, the tokens issued
RegisterInsert(p) ==
    /\ authPc[p] = "hashPassword"
    /\ LET userId == UserId(userIdCounter)
       IN  /\ userIdCounter' = userIdCounter + 1
           /\ inMemoryUsers' =
                MapSet(inMemoryUsers, userId,
                       [email |-> authCmd[p].email,
                        passwordHash |-> HashPassword(authCmd[p].password)])
           /\ AuthAnswered(p, 201, "", userId, GenerateTokens(userId))
    /\ UNCHANGED <<memVars, dbVars, llmVars, authCmd, authLoc>>

\* login and loginInMemory up to `await this.comparePassword`
LoginStart(p, credentials) ==
    /\ authPc[p] = "idle"
    /\ authCmd' = [authCmd EXCEPT
            ![p] = [op |-> "login", email |-> credentials.email,
                    password |-> credentials.password, header |-> ""]]
    /\ IF LoginSchemaError(credentials) # ""
       THEN /\ AuthAnswered(p, 401, LoginSchemaError(credentials), "", NoTokens)
            /\ UNCHANGED authLoc
       ELSE IF UsersWithEmail(inMemoryUsers, credentials.email) = {}
       THEN /\ AuthAnswered(p, 401, "Invalid email or password", "", NoTokens)
            /\ UNCHANGED authLoc
       ELSE LET id == UserId(FirstUserWithEmail(inMemoryUsers, credentials.email))
            IN  /\ authPc' = [authPc EXCEPT ![p] = "comparePassword"]
                /\ authLoc' = [authLoc EXCEPT
                        ![p] = [id |-> id,
                                passwordHash |-> inMemoryUsers[id].passwordHash]]
                /\ UNCHANGED authResp
    /\ UNCHANGED <<memVars, dbVars, llmVars, inMemoryUsers, userIdCounter>>

\* loginInMemory after the comparison
LoginCompare(p) ==
    /\ authPc[p] = "comparePassword"
    /\ IF ComparePassword(authCmd[p].password, authLoc[p].passwordHash)
       THEN AuthAnswered(p, 200, "", authLoc[p].id, GenerateTokens(authLoc[p].id))
       ELSE AuthAnswered(p, 401, "Invalid email or password", "", NoTokens)
    /\ UNCHANGED <<memVars, dbVars, llmVars, inMemoryUsers, userIdCounter, authCmd,
                   authLoc>>

\* GET /api/auth/test: authenticate, then the handler, which answers with
\* the user id the middleware put on the request
ProtectedRequest(p, authHeader) ==
    /\ authPc[p] = "idle"
    /\ authCmd' = [authCmd EXCEPT
            ![p] = [op |-> "test", email |-> "", password |-> "", header |-> authHeader]]
    /\ LET a == Authenticate(authHeader)
       IN  IF a.next
           THEN AuthAnswered(p, 200, "", a.userId, NoTokens)
           ELSE AuthAnswered(p, a.code, a.error, "", NoTokens)
    /\ UNCHANGED <<memVars, dbVars, llmVars, inMemoryUsers, userIdCounter, authLoc>>

\* POST /api/auth/refresh: the token is verified as a refresh token; the
\* user is then looked up in the database, which finds it (found) or
\* does not, or is not there at all
RefreshToken(p, refreshToken, found) ==
    /\ authPc[p] = "idle"
    /\ authCmd' = [authCmd EXCEPT
            ![p] = [op |-> "refresh", email |-> "", password |-> "",
                    header |-> refreshToken]]
    /\ LET decoded == VerifyToken(refreshToken, "refresh")
       IN  IF refreshToken = Undefined \/ refreshToken = ""
           THEN AuthAnswered(p, 400, "Refresh token is required", "", NoTokens)
           ELSE IF decoded.ok /\ found
           THEN AuthAnswered(p, 200, "", decoded.userId, GenerateTokens(decoded.userId))
           ELSE AuthAnswered(p, 401, "Invalid or expired refresh token", "", NoTokens)
    /\ UNCHANGED <<memVars, dbVars, llmVars, inMemoryUsers, userIdCounter, authLoc>>

\* the answered requests are over: their clients send the next ones
AuthNextBatch ==
    /\ \A p \in Procs : authPc[p] \in {"idle", "done"}
    /\ \E p \in Procs : authPc[p] = "done"
    /\ authPc' = [p \in Procs |-> "idle"]
    /\ authCmd' = [p \in Procs |-> NoAuthCmd]
    /\ authLoc' = [p \in Procs |-> NoAuthLoc]
    /\ authResp' = [p \in Procs |-> NoAuthResp]
    /\ UNCHANGED <<memVars, dbVars, llmVars, inMemoryUsers, userIdCounter>>

\* what clients send
EmailInputs == {"a@x.io", "b@x.io", "a@x"}
RegisterBodies == [email : EmailInputs, password : {"secret1", "hunter22", "short"}]
LoginBodies == [email : EmailInputs, password : {"secret1", "hunter22", ""}]

\* tokens: the two the server issues to user-1, an access token signed
\* with another key or out of date, and text that is no token
TokenInputs ==
    {GenerateTokens(UserId(1)).accessToken, GenerateTokens(UserId(1)).refreshToken,
     "access:user-1#X", "garbage"}

AuthHeaders ==
    {Undefined, "Bearer "}
        \cup {"Bearer " \o t : t \in TokenInputs}
        \cup {"Basic " \o GenerateTokens(UserId(1)).accessToken,
              "bearer " \o GenerateTokens(UserId(1)).accessToken,
              GenerateTokens(UserId(1)).accessToken}

InitAuth ==
    /\ inMemoryGoals = SeedStore.goals
    /\ inMemorySubtasks = SeedStore.subtasks
    /\ goalIdCounter = SeedStore.goalIdCounter
    /\ subtaskIdCounter = SeedStore.subtaskIdCounter
    /\ DbIdle
    /\ LlmIdle
    /\ AuthIdle

NextAuth ==
    \/ \E p \in Procs :
        \/ \E userData \in RegisterBodies : RegisterStart(p, userData)
        \/ RegisterInsert(p)
        \/ \E credentials \in LoginBodies : LoginStart(p, credentials)
        \/ LoginCompare(p)
        \/ \E authHeader \in AuthHeaders : ProtectedRequest(p, authHeader)
        \/ \E refreshToken \in TokenInputs \cup {""}, found \in BOOLEAN :
                RefreshToken(p, refreshToken, found)
    \/ AuthNextBatch

SpecAuth == InitAuth /\ [][NextAuth]_vars

(***************************************************************************)
(* Properties of registration, login and the protected routes.             *)
(***************************************************************************)
\* C25: no two stored users share an email, however register commands
\* interleave.
C25_EmailsUnique ==
    \A u, v \in DOMAIN inMemoryUsers :
        inMemoryUsers[u].email = inMemoryUsers[v].email => u = v

\* two registrations of one email were both answered 201
C25_BothSucceed ==
    \E p, q \in Procs :
        /\ p # q
        /\ authCmd[p].op = "register" /\ authCmd[q].op = "register"
        /\ authCmd[p].email = authCmd[q].email
        /\ authResp[p].code = 201 /\ authResp[q].code = 201

\* request p is answered in this step
AnsweredNow(p) == authPc[p] # "done" /\ authPc'[p] = "done"

\* the tokens are an access and a refresh token of the user
TokensOf(tokens, userId) ==
    /\ JwtVerify(tokens.accessToken) = [ok |-> TRUE, type |-> "access", userId |-> userId]
    /\ JwtVerify(tokens.refreshToken) = [ok |-> TRUE, type |-> "refresh", userId |-> userId]

C27_LoginIffRegistered ==
    [][\A p \in Procs :
        (AnsweredNow(p) /\ authCmd'[p].op = "login")
            => /\ (authResp'[p].code = 200)
                    <=> \E u \in DOMAIN inMemoryUsers :
                            /\ inMemoryUsers[u].email = authCmd'[p].email
                            /\ inMemoryUsers[u].passwordHash
                                    = HashPassword(authCmd'[p].password)
               /\ authResp'[p].code = 200
                    => /\ inMemoryUsers[authResp'[p].userId].email = authCmd'[p].email
                       /\ TokensOf(authResp'[p].tokens, authResp'[p].userId)
               /\ authResp'[p].code # 200
                    => /\ authResp'[p].tokens = NoTokens
                       /\ LoginSchemaError(authCmd'[p]) = ""
                            => /\ authResp'[p].code = 401
                               /\ authResp'[p].error = "Invalid email or password"
               /\ inMemoryUsers' = inMemoryUsers
               /\ userIdCounter' = userIdCounter
    ]_vars

\* the header is "Bearer " and a token that verifies and is an access token
BearerAccess(authHeader) ==
    /\ StartsWith(authHeader, "Bearer ")
    /\ LET decoded == JwtVerify(SubSeq(authHeader, BearerPrefixLength + 1, Len(authHeader)))
       IN  decoded.ok /\ decoded.type = "access"

\* C28: the handler of a protected route runs only for a Bearer token that
\* verifies and is an access token; every other request is answered 401
\* and the handler does not run; refreshToken never accepts an access token.
C28_OnlyAccessTokensPass ==
    \A p \in Procs :
        /\ (authPc[p] = "done" /\ authCmd[p].op = "test")
            => IF BearerAccess(authCmd[p].header)
               THEN authResp[p].code = 200
               ELSE authResp[p].code = 401 /\ authResp[p].userId = ""
        /\ (authPc[p] = "done" /\ authCmd[p].op = "refresh"
                /\ JwtVerify(authCmd[p].header).type = "access")
            => authResp[p].code # 200

\* a refresh token was shown to a protected route, and an access token
\* that verifies to refreshToken
C28_Witness ==
    \E p, q \in Procs :
        /\ authPc[p] = "done" /\ authCmd[p].op = "test"
        /\ authCmd[p].header = "Bearer " \o GenerateTokens(UserId(1)).refreshToken
        /\ authResp[p].code = 401
        /\ authPc[q] = "done" /\ authCmd[q].op = "refresh"
        /\ authCmd[q].header = GenerateTokens(UserId(1)).accessToken
        /\ authResp[q].code = 401

(***************************************************************************)
(* Two toggles of one subtask on the durable backend.                      *)
(***************************************************************************)
\* C29: when two toggle commands on the same subtask ran concurrently and
\* both were answered 200, the subtask's completed flag is what it was
\* before them, as after running them one after the other.
C29_TwoTogglesRestore ==
    \A p, q \in Procs :
        (/\ BatchOver
         /\ p # q
         /\ cmd[p].op = "toggleSubtask" /\ cmd[q].op = "toggleSubtask"
         /\ cmd[p].subtaskId = cmd[q].subtaskId
         /\ resp[p].code = 200 /\ resp[q].code = 200)
            => dbSubtasks[cmd[p].subtaskId].completed
                    = snap.subtasks[cmd[p].subtaskId].completed

(***************************************************************************)
(* The frontend's conversions between its goals and the goals of the API   *)
(* (src/unnamed/part_004), and the update branch of useGoals.upsert        *)
(* (src/hooks/use-goals.ts), which saves a goal of the frontend through    *)
(* PUT /api/goals/:id.                                                     *)
(***************************************************************************)
FrontendToBackendStatus(status) ==
    CASE status = "pending" -> "ACTIVE"
      [] status = "in_progress" -> "ACTIVE"
      [] status = "completed" -> "COMPLETED"

BackendToFrontendStatus(status) ==
    CASE status = "ACTIVE" -> "in_progress"
      [] status = "COMPLETED" -> "completed"
      [] status = "PAUSED" -> "pending"
      [] status = "CANCELLED" -> "pending"

FrontendToBackendPriority(priority) ==
    CASE priority = "High" -> "HIGH"
      [] priority = "Medium" -> "MEDIUM"
      [] priority = "Low" -> "LOW"

BackendToFrontendPriority(priority) ==
    CASE priority = "HIGH" -> "High"
      [] priority = "MEDIUM" -> "Medium"
      [] priority = "LOW" -> "Low"

\* apiGoalToGoal, on the fields the store keeps
ApiGoalToGoal(apiGoal) ==
    [title |-> apiGoal.title,
     priority |-> BackendToFrontendPriority(apiGoal.priority),
     dueDate |-> apiGoal.dueDate,
     description |-> apiGoal.description,
     status |-> BackendToFrontendStatus(apiGoal.status)]

\* goalToApiGoal: the body of the update request
GoalToApiGoal(goal) ==
    [NoGoalData EXCEPT
        !.title = goal.title,
        !.description = goal.description,
        !.priority = FrontendToBackendPriority(goal.priority),
        !.dueDate = goal.dueDate,
        !.status = FrontendToBackendStatus(goal.status)]

\* the goal as GET /api/goals hands it to the frontend
ApiGoal(st, goalId) ==
    [title |-> st.goals[goalId].title,
     priority |-> st.goals[goalId].priority,
     dueDate |-> st.goals[goalId].dueDate,
     description |-> st.goals[goalId].description,
     status |-> st.goals[goalId].status]

\* the response to saving goal goalId of the frontend's list without an edit
SaveUnedited(st, userId, goalId) ==
    HandleUpdateGoal(st, userId, goalId, GoalToApiGoal(ApiGoalToGoal(ApiGoal(st, goalId))))

\* useGoals.upsert, update branch, for a goal the user has loaded
UpsertGoal(userId, goalId) ==
    /\ goalId \in DOMAIN inMemoryGoals
    /\ inMemoryGoals[goalId].ownerId = userId
    /\ Handled(SaveUnedited(Store, userId, goalId))

NextFrontend ==
    \/ Next
    \/ \E userId \in Users, goalId \in GoalIds : UpsertGoal(userId, goalId)

SpecFrontend == Init /\ [][NextFrontend]_vars

\* C30: converting to the frontend and back gives every priority and every
\* status back, and saving a goal that was not edited leaves its status as
\* it was.
C30_RoundTripPreserves ==
    /\ \A priority \in Priorities :
            FrontendToBackendPriority(BackendToFrontendPriority(priority)) = priority
    /\ \A status \in Statuses :
            FrontendToBackendStatus(BackendToFrontendStatus(status)) = status
    /\ \A goalId \in DOMAIN inMemoryGoals :
            LET h == SaveUnedited(Store, inMemoryGoals[goalId].ownerId, goalId)
            IN  /\ h.code = 200
                /\ h.st.goals[goalId].status = inMemoryGoals[goalId].status

====
